---- MODULE Spec2Model ----
(***************************************************************************)
(* Video-analysis servers: request dispatch, temp-file lifecycle, the      *)
(* analysis engine and the authenticator.                                  *)
(*                                                                         *)
(* Server variants and their adapters:                                     *)
(*   remote-server.js (first file)   "rest", "mcp", "mcpcall", "ws"        *)
(*   remote-server.js (second file)  "plain"  (plain HTTP server)          *)
(*   mcp-server.js                   "sse"                                 *)
(*   unnamed/part_002                "stdio"                               *)
(*   stdio-server.js (first file)    "mock"   (mock stdio server)          *)
(*   stdio-server.js (second file)   the client SDK, VideoAnalysisClient   *)
(***************************************************************************)
EXTENDS Integers, Sequences, FiniteSets, TLC

(* ------------------------------ bounds --------------------------------- *)

\* number of temp paths (uuids) one behaviour may allocate
MaxUuid == 2

\* number of list_tools messages a client sends on one WebSocket connection
MaxWsMessages == 1

(* ------------------------- program constants --------------------------- *)

MAX_FILE_SIZE == 104857600

\* optional values: <<>> is undefined/null, <<x>> is x
None == <<>>

Some(x) == <<x>>

SUPPORTED_FORMATS ==
    [ext \in {".mp4", ".webm", ".mov", ".avi", ".mkv"} |->
        CASE ext = ".mp4"  -> "video/mp4"
          [] ext = ".webm" -> "video/webm"
          [] ext = ".mov"  -> "video/quicktime"
          [] ext = ".avi"  -> "video/x-msvideo"
          [] ext = ".mkv"  -> "video/x-matroska"]

\* the five default prompts of remote-server.js, mcp-server.js and the
\* stdio server (abbreviated to their first word)
defaultPrompts ==
    <<"Describe", "What", "Are", "Analyze", "How">>

\* the five default prompts of the plain HTTP server (a different list)
defaultPromptsPlain ==
    <<"Analyze-timeline", "Identify-frames", "Analyze-structure",
      "Review", "Identify-moments">>

Transports == {"rest", "upload", "mcp", "mcpcall", "ws", "stdio", "sse", "plain", "mock"}

RemoteHttp == {"rest", "upload", "mcp", "mcpcall"}

\* String.prototype.toLowerCase on the extensions the model uses
toLowerCase(e) ==
    CASE e = ".MP4" -> ".mp4"
      [] e = ".MKV" -> ".mkv"
      [] OTHER -> e

\* a path is <<directory, name, extension>>; path.extname
extname(p) == p[3]

TEMP_DIR == "video-analysis-uploads"

\* path.join(TEMP_DIR, `${uuidv4()}.mp4`)
TempPathMutFixed(u) == <<TEMP_DIR, 1, ".mp4">>

TempPathMutNoExtension(u) == <<TEMP_DIR, u, "">>

TempPath(u) == <<TEMP_DIR, u, ".mp4">>

TempPaths == {TempPath(u) : u \in 1..MaxUuid}

\* files of the caller on the local disk: <<path, size>>; "gone.mp4" is the
\* path of a file that does not exist
LocalFiles ==
    { <<<<"home", "a", ".mp4">>, 10>>,
      <<<<"home", "b", ".MKV">>, 10>>,
      <<<<"home", "c", ".avi">>, MAX_FILE_SIZE>>,
      <<<<"home", "d", ".mov">>, MAX_FILE_SIZE + 1>>,
      <<<<"home", "e", ".webm">>, 10>>,
      <<<<"home", "f", ".txt">>, 10>>,
      <<<<"home", "g", "">>, 10>> }

LocalPaths == {f[1] : f \in LocalFiles} \cup {<<"home", "gone", ".mp4">>}

\* multer's diskStorage: destination TEMP_DIR, filename
\* `${uuidv4()}${path.extname(file.originalname)}`
UploadPath(u, originalname) == <<TEMP_DIR, u, extname(originalname)>>

\* the paths multer can leave a file at: the name of an upload that passes
\* the fileFilter and limits.fileSize
UploadPaths ==
    {UploadPath(u, f[1]) : u \in 1..MaxUuid,
        f \in {g \in LocalFiles : /\ toLowerCase(extname(g[1])) \in DOMAIN SUPPORTED_FORMATS
                                  /\ g[2] <= MAX_FILE_SIZE}}

Paths == LocalPaths \cup TempPaths \cup UploadPaths

\* a file is absent (size -1) or has a size in bytes
Absent == -1

InitDisk ==
    [p \in Paths |->
        IF \E f \in LocalFiles : f[1] = p
        THEN (CHOOSE f \in LocalFiles : f[1] = p)[2]
        ELSE Absent]

(* ------------------------------ state ---------------------------------- *)

VARIABLES
    ENABLE_AUTH,      \* process.env.ENABLE_AUTH !== 'false'
    API_KEY,          \* process.env.API_KEY || null
    GOOGLE_API_KEY,   \* TRUE iff process.env.GOOGLE_API_KEY is set
    lastAuth,         \* the last request or handshake seen by the authenticator
    wsConn,           \* state of the WebSocket connection of the auth model
    currentConfig,    \* googleApiKey is set, per protocol server (stdio, sse)
    disk,             \* path -> size in bytes, or Absent
    nextUuid,         \* the next uuidv4() value
    req,              \* the request being served
    pc,               \* where its handler is suspended
    tempFilePath,     \* the temp path allocated for it, if any
    videoPart,        \* analyzeVideo: the file and the MIME type it is sent under
    prompts,          \* analyzeVideo: the prompts to submit
    results,          \* analyzeVideo: the results collected so far
    calls,            \* the provider calls issued for this request
    ret,              \* what analyzeVideo returned, if it has returned
    out,              \* what the adapter has sent back for this request
    release,          \* cleanup blocks run and unlinkSync calls made for it
    authed            \* FALSE iff the authenticate middleware refused it

authVars == <<lastAuth, wsConn>>

mainVars == <<currentConfig, disk, nextUuid, req, pc, tempFilePath, videoPart,
              prompts, results, calls, ret, out, release, authed>>

(* --------------------------- authenticator ----------------------------- *)

JWT_SECRET == "jwt-secret"

\* a signed token: the secret it was signed with and whether it has expired
Tokens == [signedWith : {JWT_SECRET, "other-secret"}, expired : BOOLEAN]

\* jwt.verify(token, JWT_SECRET) returns (TRUE) or throws (FALSE)
jwtVerify(token) == token.signedWith = JWT_SECRET /\ ~token.expired

Keys == {"secret", "wrong"}

OptKeys == {None} \cup {Some(k) : k \in Keys}

\* the Authorization header as its space-separated words
AuthHeaders ==
    {None} \cup {Some(<<"Bearer", t>>) : t \in Tokens}
           \cup {Some(<<[signedWith |-> JWT_SECRET, expired |-> FALSE]>>)}

\* req.headers.authorization?.split(' ')[1]
bearerToken(authorization) ==
    IF authorization = None THEN None
    ELSE IF Len(authorization[1]) >= 2 THEN Some(authorization[1][2])
    ELSE None

HttpCreds == [xApiKey : OptKeys, queryApiKey : OptKeys, authorization : AuthHeaders]

\* req.headers['x-api-key'] || req.query.api_key
providedKey(creds) ==
    IF creds.xApiKey # None THEN creds.xApiKey ELSE creds.queryApiKey

\* the authenticate middleware: TRUE is next(), FALSE is the 401 response
authenticateMutNoFallback(enableAuth, apiKey, creds) ==
    IF ~enableAuth THEN TRUE
    ELSE IF apiKey # None /\ providedKey(creds) = apiKey THEN TRUE
    ELSE IF bearerToken(creds.authorization) # None
            /\ jwtVerify(bearerToken(creds.authorization)[1]) THEN TRUE
    ELSE FALSE

authenticateMutAlwaysOn(enableAuth, apiKey, creds) ==
    IF apiKey # None /\ providedKey(creds) = apiKey THEN TRUE
    ELSE IF bearerToken(creds.authorization) # None
            /\ jwtVerify(bearerToken(creds.authorization)[1]) THEN TRUE
    ELSE IF apiKey = None THEN TRUE
    ELSE FALSE

authenticate(enableAuth, apiKey, creds) ==
    IF ~enableAuth THEN TRUE
    ELSE IF apiKey # None /\ providedKey(creds) = apiKey THEN TRUE
    ELSE IF bearerToken(creds.authorization) # None
            /\ jwtVerify(bearerToken(creds.authorization)[1]) THEN TRUE
    ELSE IF apiKey = None THEN TRUE
    ELSE FALSE

\* the handshake URL's query parameters, as the server splits them out:
\* req.url.split('api_key=')[1]?.split('&')[0] and the same for token=
WsCreds == [api_key : OptKeys, token : {None} \cup {Some(t) : t \in Tokens}]

\* the authentication block of wss.on('connection'): the value of
\* `authenticated` (TRUE when ENABLE_AUTH is off and the block is skipped)
wsAuthenticate(enableAuth, apiKey, creds) ==
    IF ~enableAuth THEN TRUE
    ELSE IF apiKey # None /\ creds.api_key = apiKey THEN TRUE
    ELSE IF creds.token # None THEN jwtVerify(creds.token[1])
    ELSE IF apiKey = None THEN TRUE
    ELSE FALSE

(* --------------------------- video validator --------------------------- *)

Threw(msg, code) == [kind |-> "throw", msg |-> msg, code |-> code]

Returned(v) == [kind |-> "return", value |-> v]

\* fs.existsSync: FALSE for undefined and for a path with no file
existsSync(d, p) == p # None /\ d[p[1]] # Absent

\* validateVideoFile of remote-server.js and of the stdio server
validateVideoFileMutGE(d, p) ==
    IF ~existsSync(d, p) THEN Threw("File not found", "InvalidRequest")
    ELSE IF toLowerCase(extname(p[1])) \notin DOMAIN SUPPORTED_FORMATS
         THEN Threw("Unsupported file format", "InvalidRequest")
    ELSE IF d[p[1]] >= MAX_FILE_SIZE
         THEN Threw("File too large", "InvalidRequest")
    ELSE Returned(SUPPORTED_FORMATS[toLowerCase(extname(p[1]))])

validateVideoFile(d, p) ==
    IF ~existsSync(d, p) THEN Threw("File not found", "InvalidRequest")
    ELSE IF toLowerCase(extname(p[1])) \notin DOMAIN SUPPORTED_FORMATS
         THEN Threw("Unsupported file format", "InvalidRequest")
    ELSE IF d[p[1]] > MAX_FILE_SIZE
         THEN Threw("File too large", "InvalidRequest")
    ELSE Returned(SUPPORTED_FORMATS[toLowerCase(extname(p[1]))])

\* the switch on the extension in analyzeVideo of mcp-server.js and of the
\* plain HTTP server; path.extname(undefined) throws
mimeSwitch(p) ==
    IF p = None THEN Threw("path must be a string", "")
    ELSE Returned(CASE toLowerCase(extname(p[1])) = ".mp4" -> "video/mp4"
                    [] toLowerCase(extname(p[1])) = ".webm" -> "video/webm"
                    [] toLowerCase(extname(p[1])) = ".mov" -> "video/quicktime"
                    [] OTHER -> "video/mp4")

(* ---------------------------- analysis engine -------------------------- *)

\* which analyzeVideo an adapter calls
Engine(transport) ==
    CASE transport \in {"rest", "upload", "mcp", "mcpcall", "ws"} -> "remote"
      [] OTHER -> transport

\* the credential test at the top of analyzeVideo; the plain HTTP server
\* falls back to a key literal and has no test
hasGoogleKey(engine, cfg, envKey) ==
    CASE engine = "remote" -> envKey
      [] engine = "plain" -> TRUE
      [] OTHER -> cfg[engine]

defaultPromptsOf(engine) ==
    IF engine = "plain" THEN defaultPromptsPlain ELSE defaultPrompts

\* const prompts = analysisPrompt ? [analysisPrompt] : defaultPrompts
\* (undefined and the empty string are falsy)
promptsForMutTwice(engine, analysisPrompt) ==
    IF analysisPrompt # None /\ analysisPrompt[1] # ""
    THEN <<analysisPrompt[1], analysisPrompt[1]>>
    ELSE defaultPromptsOf(engine)

promptsFor(engine, analysisPrompt) ==
    IF analysisPrompt # None /\ analysisPrompt[1] # ""
    THEN <<analysisPrompt[1]>>
    ELSE defaultPromptsOf(engine)

\* what the catch block of analyzeVideo returns; `collected` is the results
\* array at the time of the throw, which the catch block does not use
analyzeVideoCatchMutPartial(collected, message) ==
    [success |-> FALSE, error |-> message, results |-> collected]

analyzeVideoCatchMutWrap(collected, message) ==
    [success |-> FALSE, error |-> "Analysis failed"]

analyzeVideoCatch(collected, message) ==
    [success |-> FALSE, error |-> message]

\* the for-of loop inside the try: the next prompt is submitted only if the
\* call before it resolved and prompts remain
loopContinuesMutSwallow(ok, pushed, total) == pushed < total

loopContinues(ok, pushed, total) == ok /\ pushed < total

\* analyzeVideo up to its first provider call: the credential test (throws),
\* then inside the try: validation or the MIME switch, and readFileSync.
\* Result: a throw, a returned value, or the MIME type to go on with.
analyzeVideoBeginMutValidateFirst(engine, cfg, envKey, d, p, readOk) ==
    LET v == IF engine \in {"remote", "stdio"} THEN validateVideoFile(d, p)
             ELSE mimeSwitch(p)
    IN  IF v.kind = "throw"
        THEN Returned(analyzeVideoCatch(<<>>, v.msg))
        ELSE IF ~hasGoogleKey(engine, cfg, envKey)
        THEN Threw("Google API key is required for video analysis",
                   IF engine = "remote" THEN "" ELSE "InvalidRequest")
        ELSE IF ~existsSync(d, p)
             THEN Returned(analyzeVideoCatch(<<>>, "ENOENT"))
        ELSE IF ~readOk
             THEN Returned(analyzeVideoCatch(<<>>, "EACCES"))
        ELSE [kind |-> "await", mimeType |-> v.value]

analyzeVideoBeginMutRaise(engine, cfg, envKey, d, p, readOk) ==
    LET v == IF engine \in {"remote", "stdio"} THEN validateVideoFile(d, p)
             ELSE mimeSwitch(p)
    IN  IF ~hasGoogleKey(engine, cfg, envKey)
        THEN Threw("Google API key is required for video analysis",
                   IF engine = "remote" THEN "" ELSE "InvalidRequest")
        ELSE IF v.kind = "throw"
             THEN v
        ELSE IF ~existsSync(d, p)
             THEN Threw("ENOENT", "")
        ELSE IF ~readOk
             THEN Threw("EACCES", "")
        ELSE [kind |-> "await", mimeType |-> v.value]

analyzeVideoBegin(engine, cfg, envKey, d, p, readOk) ==
    LET v == IF engine \in {"remote", "stdio"} THEN validateVideoFile(d, p)
             ELSE mimeSwitch(p)
    IN  IF ~hasGoogleKey(engine, cfg, envKey)
        THEN Threw("Google API key is required for video analysis",
                   IF engine = "remote" THEN "" ELSE "InvalidRequest")
        ELSE IF v.kind = "throw"
             THEN Returned(analyzeVideoCatch(<<>>, v.msg))
        ELSE IF ~existsSync(d, p)
             THEN Returned(analyzeVideoCatch(<<>>, "ENOENT"))
        ELSE IF ~readOk
             THEN Returned(analyzeVideoCatch(<<>>, "EACCES"))
        ELSE [kind |-> "await", mimeType |-> v.value]

\* messages the provider may fail with
ProviderErrors == {"429 quota", "503 unavailable"}

(* --------------------------- transport adapters ------------------------ *)

\* allowedExtensions of multer's fileFilter
UploadExtensions == {".mp4", ".webm", ".mov", ".avi", ".mkv"}

Tools == {"analyze_video_file", "analyze_video_url", "get_server_status",
          "analyze_video", "no_such_tool", ""}

\* the cases of executeTool's switch in the mock stdio server
ExecuteToolCases ==
    {"analyze_video", "extract_frames", "transcribe_video", "detect_objects",
     "detect_faces", "extract_text", "analyze_activities", "generate_summary",
     "compare_videos", "get_video_metadata"}

\* the names in mockTools, the array that the mock stdio server lists
MockToolsMutExtra ==
    {"analyze_video", "extract_frames", "transcribe_video", "detect_objects",
     "detect_faces", "extract_text", "analyze_activities", "generate_summary",
     "compare_videos", "get_video_metadata", "no_such_tool"}

MockTools ==
    {"analyze_video", "extract_frames", "transcribe_video", "detect_objects",
     "detect_faces", "extract_text", "analyze_activities", "generate_summary",
     "compare_videos", "get_video_metadata"}

\* the id a WebSocket client puts into a call_tool message, if it puts one
RequestIds == {None, Some(1)}

\* the tools a server's discovery lists: the tools arrays of tools/list,
\* /api/mcp/tools and list_tools on the remote server, of ListTools on the
\* stdio and SSE servers, and mockTools
ListedToolsMutStatusOnRemote(t) ==
    CASE t = "mock" -> MockTools
      [] OTHER -> {"analyze_video_file", "analyze_video_url", "get_server_status"}

ListedTools(t) ==
    CASE t \in {"mcp", "mcpcall", "ws"} -> {"analyze_video_file", "analyze_video_url"}
      [] t \in {"stdio", "sse"} ->
            {"analyze_video_file", "analyze_video_url", "get_server_status"}
      [] t = "mock" -> MockTools
      [] OTHER -> {}

\* remote URLs: one that `new URL` and fetch reject, and well-formed ones
BadUrl == <<"url", "not a url", "">>

Urls == {BadUrl, <<"url", "http://host/v", ".avi">>}

CustomPrompts == {"custom prompt"}

OptPrompts == {None, Some("")} \cup {Some(c) : c \in CustomPrompts}

MessageTypes == {"call_tool", "list_tools", "ping", "bogus", "unparseable"}

\* a request in canonical form: the adapter, the message type (WebSocket
\* only; every other adapter's request is a tool call), the tool named, whether
\* an arguments object came with it, the file_path / video_url, the
\* analysis_prompt and the id of a WebSocket call_tool message
Requests ==
    { r \in [transport : Transports, type : MessageTypes, tool : Tools,
             hasArgs : BOOLEAN,
             target : {None} \cup {Some(x) : x \in LocalPaths \cup Urls},
             prompt : OptPrompts, id : RequestIds] :
        /\ r.transport # "ws" => r.type = "call_tool"
        /\ (r.transport # "ws" \/ r.type # "call_tool") => r.id = None
        /\ r.transport = "mock" => (r.target = None /\ r.prompt = None)
        /\ r.type # "call_tool" =>
              (r.tool = "" /\ ~r.hasArgs)
        /\ ~r.hasArgs => (r.target = None /\ r.prompt = None)
        /\ r.transport \in {"rest", "upload", "plain", "stdio", "sse", "mock"} => r.hasArgs
        /\ r.transport = "rest" => r.tool = "analyze_video_url"
        /\ r.transport = "upload" =>
              /\ r.tool = "analyze_video_file"
              /\ r.target = None \/ \E f \in LocalFiles : f[1] = r.target[1]
        /\ r.tool = "" => r.transport \in {"ws", "mcp", "mcpcall"}
        /\ r.tool = "analyze_video_file" => (r.target = None \/ r.target[1] \in LocalPaths)
        /\ r.tool = "analyze_video_url" => (r.target = None \/ r.target[1] \in Urls)
        /\ r.tool \notin {"analyze_video_file", "analyze_video_url"} =>
              (r.target = None /\ r.prompt = None) }

NoReq == [transport |-> "none"]

Resp(status, error, result) ==
    [status |-> status, error |-> error, result |-> result, id |-> None]

\* the two ws.send calls of the call_tool case put the message's id into
\* the reply; no other reply of any adapter has an id of the request
CallToolReplyMutNoId(rq, sent) == sent

CallToolReply(rq, sent) ==
    [i \in 1..Len(sent) |->
        [sent[i] EXCEPT !.id = IF rq.transport = "ws" /\ rq.type = "call_tool"
                                 THEN rq.id ELSE None]]

\* the adapter's envelope around a value returned by analyzeVideo
RespondResult(t, r) ==
    CASE t \in {"rest", "upload", "mcp", "mcpcall", "plain"} -> Resp("200", "", Some(r))
      [] t = "ws" -> Resp("tool_result", "", Some(r))
      [] OTHER -> Resp("result", "", Some(r))

\* the adapter's envelope around an exception that reached its catch block
RespondErrorMutCallStatus(t, e) ==
    CASE t = "mcpcall" -> Resp("400", e.msg, None)
      [] t \in {"rest", "upload", "mcp", "plain"} -> Resp("500", e.msg, None)
      [] t = "ws" -> Resp("error", e.msg, None)
      [] t = "mock" -> Resp("isError", e.msg, None)
      [] OTHER -> Resp(IF e.code # "" THEN e.code ELSE "InternalError", e.msg, None)

RespondError(t, e) ==
    CASE t \in {"rest", "upload", "mcp", "mcpcall", "plain"} -> Resp("500", e.msg, None)
      [] t = "ws" -> Resp("error", e.msg, None)
      [] t = "mock" -> Resp("isError", e.msg, None)
      [] OTHER -> Resp(IF e.code # "" THEN e.code ELSE "InternalError", e.msg, None)

Unlink(d, p) == [d EXCEPT ![p] = Absent]

\* the catch block of an analyze_video_url handler: delete the temp file if
\* it exists (the plain HTTP server's catch deletes nothing), then answer
\* or rethrow to the catch that answers
UrlCatchCleanupMutKeep(d, tmp) == d

UrlCatchCleanup(d, tmp) ==
    IF d[tmp] # Absent THEN Unlink(d, tmp) ELSE d

\* the plain HTTP server's catch: res.status(500).json(...) and nothing else
UrlCatchPlain(d, tmp) == d

\* how often a handler has entered a cleanup block, and how often it has
\* called unlinkSync on its temp path
NoRelease == [cleanups |-> 0, unlinks |-> 0]

\* the catch block's count: the plain HTTP server's has no cleanup; the
\* others test existsSync and call unlinkSync if the file is there
UrlCatchRelease(t, d, tmp) ==
    IF t = "plain" THEN NoRelease
    ELSE [cleanups |-> 1, unlinks |-> IF d[tmp] # Absent THEN 1 ELSE 0]

UrlCatchMutDoubleSend(t, d, tmp, e) ==
    [disk |-> IF t = "plain" THEN UrlCatchPlain(d, tmp) ELSE UrlCatchCleanup(d, tmp),
     sent |-> <<RespondError(t, e), RespondError(t, e)>>,
     release |-> UrlCatchRelease(t, d, tmp)]

UrlCatch(t, d, tmp, e) ==
    [disk |-> IF t = "plain" THEN UrlCatchPlain(d, tmp) ELSE UrlCatchCleanup(d, tmp),
     sent |-> <<RespondError(t, e)>>,
     release |-> UrlCatchRelease(t, d, tmp)]

\* the handlers that call unlinkSync after the analysis without testing
\* existsSync first: analyze_video_url of mcp-server.js and of the plain
\* HTTP server, and /api/analyze/file of remote-server.js
UncheckedUnlink == {"sse", "plain", "upload"}

\* the statements after `await analyzeVideo(...)` in an analyze_video_url or
\* upload handler: delete the temp file, send the result. Where unlinkSync
\* is called without a test, a missing file throws into the catch block.
UrlFinishMutKeepUpload(t, d, tmp, r) ==
    IF t = "upload"
    THEN [disk |-> d, sent |-> <<RespondResult(t, r)>>, release |-> NoRelease]
    ELSE [disk |-> IF d[tmp] # Absent THEN Unlink(d, tmp) ELSE d,
          sent |-> <<RespondResult(t, r)>>,
          release |-> [cleanups |-> 1,
                       unlinks |-> IF d[tmp] # Absent THEN 1 ELSE 0]]

UrlFinish(t, d, tmp, r) ==
    IF t \in UncheckedUnlink /\ d[tmp] = Absent
    THEN LET c == UrlCatch(t, d, tmp, Threw("ENOENT", ""))
         IN  [c EXCEPT !.release = [cleanups |-> 1 + c.release.cleanups,
                                    unlinks |-> 1 + c.release.unlinks]]
    ELSE [disk |-> IF d[tmp] # Absent THEN Unlink(d, tmp) ELSE d,
          sent |-> <<RespondResult(t, r)>>,
          release |-> [cleanups |-> 1,
                       unlinks |-> IF d[tmp] # Absent THEN 1 ELSE 0]]

\* how a handler goes on once analyzeVideo has thrown or returned
Conclude(t, tool, d, tmp, outcome) ==
    IF tool = "analyze_video_url" \/ t = "upload"
    THEN IF outcome.kind = "return"
         THEN UrlFinish(t, d, tmp[1], outcome.value)
         ELSE UrlCatch(t, d, tmp[1], outcome)
    ELSE [disk |-> d,
          sent |-> IF outcome.kind = "return"
                   THEN <<RespondResult(t, outcome.value)>>
                   ELSE <<RespondError(t, outcome)>>,
          release |-> NoRelease]

\* The synchronous head of a handler, from the decoded request to its first
\* await: an answer, an exception for the adapter's catch, or the operation
\* to run.
Dispatch(r, d) ==
    LET t == r.transport
        missing == ~r.hasArgs \/ r.target = None
        Go(op) == [kind |-> op]
        Answer(status, error) == [kind |-> "respond", sent |-> <<Resp(status, error, None)>>]
    IN
    CASE t = "rest" ->
            IF missing THEN Answer("400", "Video URL is required") ELSE Go("url")
      [] t = "upload" ->
            IF missing THEN Answer("400", "No video file provided")
            ELSE IF toLowerCase(extname(r.target[1])) \notin UploadExtensions
                 THEN Answer("500", "Internal server error")
            ELSE Go("upload")
      [] t \in {"mcp", "mcpcall"} ->
            IF t = "mcpcall" /\ r.tool = "" THEN Answer("400", "Tool name is required")
            ELSE IF r.tool = "analyze_video_file"
                 THEN IF missing THEN Threw("file_path is required", "") ELSE Go("file")
            ELSE IF r.tool = "analyze_video_url"
                 THEN IF missing THEN Threw("video_url is required", "") ELSE Go("url")
            ELSE Answer("404", "Tool not found")
      [] t = "ws" ->
            CASE r.type = "unparseable" -> Threw("Unexpected token", "")
              [] r.type = "list_tools" -> Answer("tools", "")
              [] r.type = "ping" -> Answer("pong", "")
              [] r.type = "bogus" -> Answer("error", "Unknown message type")
              [] OTHER ->
                    IF r.tool = "analyze_video_file"
                    THEN IF ~r.hasArgs THEN Threw("Cannot read properties of undefined", "")
                         ELSE Go("file")
                    ELSE IF r.tool = "analyze_video_url"
                         THEN Go("url")
                    ELSE Threw("Unknown tool", "")
      [] t = "stdio" ->
            CASE r.tool = "analyze_video_file" ->
                    IF missing
                    THEN Threw("File path is required and must be a string", "InvalidRequest")
                    ELSE Go("file")
              [] r.tool = "analyze_video_url" ->
                    IF missing
                    THEN Threw("Video URL is required and must be a string", "InvalidRequest")
                    ELSE IF r.target[1] = BadUrl
                         THEN Threw("Invalid URL format", "InvalidRequest")
                    ELSE Go("url")
              [] r.tool = "get_server_status" -> Answer("result", "")
              [] OTHER -> Threw("Tool not found", "MethodNotFound")
      [] t = "sse" ->
            CASE r.tool = "analyze_video_file" ->
                    IF missing THEN Threw("File path is required", "InvalidRequest")
                    ELSE IF ~existsSync(d, r.target)
                         THEN Threw("File not found", "InvalidRequest")
                    ELSE Go("file")
              [] r.tool = "analyze_video_url" ->
                    IF missing THEN Threw("Video URL is required", "InvalidRequest")
                    ELSE Go("url")
              [] r.tool = "get_server_status" -> Answer("result", "")
              [] OTHER -> Threw("Tool not found", "MethodNotFound")
      [] t = "mock" ->
            IF r.tool \in ExecuteToolCases THEN Answer("result", "")
            ELSE Threw("Unknown tool", "")
      [] OTHER ->
            CASE r.tool = "analyze_video_file" ->
                    IF missing THEN Answer("400", "File path is required")
                    ELSE IF ~existsSync(d, r.target) THEN Answer("404", "File not found")
                    ELSE Go("file")
              [] r.tool = "analyze_video_url" ->
                    IF missing THEN Answer("400", "Video URL is required") ELSE Go("url")
              [] r.tool = "get_server_status" -> Answer("200", "")
              [] OTHER -> Answer("404", "Cannot POST")

(* ------------------------- serving one request ------------------------- *)

DownloadSizes == {10, MAX_FILE_SIZE + 1}

\* the outcomes the authenticate middleware can have under this configuration
AuthOutcomes == {authenticate(ENABLE_AUTH, API_KEY, c) : c \in HttpCreds}

\* a handler ends: everything it sent is in `sent`
Ends(d, sent, r, rel) ==
    /\ pc' = "done"
    /\ disk' = d
    /\ out' = sent
    /\ ret' = r
    /\ release' = rel
    /\ videoPart' = None
    /\ prompts' = <<>>

\* analyzeVideo(p, prompt) is called by a handler of adapter t: it throws or
\* returns at once (and the handler concludes), or it suspends at its first
\* provider call
CallAnalyzeVideoMutUnlinkSource(rq, t, tool, d, tmp, p, prompt, cfg, readOk) ==
    LET b == analyzeVideoBegin(Engine(t), cfg, GOOGLE_API_KEY, d, p, readOk)
        c == Conclude(t, tool, d, tmp, b)
    IN  IF b.kind = "await"
        THEN /\ pc' = "generate"
             /\ disk' = d
             /\ out' = <<>>
             /\ ret' = None
             /\ videoPart' = Some([path |-> p[1], mimeType |-> b.mimeType])
             /\ prompts' = promptsFor(Engine(t), prompt)
             /\ UNCHANGED release
        ELSE Ends(IF p # None THEN Unlink(c.disk, p[1]) ELSE c.disk,
                  CallToolReply(rq, c.sent),
                  IF b.kind = "return" THEN Some(b.value) ELSE None, c.release)

CallAnalyzeVideo(rq, t, tool, d, tmp, p, prompt, cfg, readOk) ==
    LET b == analyzeVideoBegin(Engine(t), cfg, GOOGLE_API_KEY, d, p, readOk)
        c == Conclude(t, tool, d, tmp, b)
    IN  IF b.kind = "await"
        THEN /\ pc' = "generate"
             /\ disk' = d
             /\ out' = <<>>
             /\ ret' = None
             /\ videoPart' = Some([path |-> p[1], mimeType |-> b.mimeType])
             /\ prompts' = promptsFor(Engine(t), prompt)
             /\ UNCHANGED release
        ELSE Ends(c.disk, CallToolReply(rq, c.sent),
                  IF b.kind = "return" THEN Some(b.value) ELSE None, c.release)

\* the app.use middleware of mcp-server.js: every request sets the
\* process-wide configuration from its query string or the environment
setConfig(t, cfg, queryKey) ==
    IF t = "sse" THEN [cfg EXCEPT !.sse = queryKey \/ GOOGLE_API_KEY] ELSE cfg

\* A request is rejected by the authenticate middleware (remote HTTP routes),
\* which stands before upload.single('video') and before every handler
RequestRejectedMutUploadFirst(r) ==
    /\ pc = "idle"
    /\ r.transport \in RemoteHttp
    /\ FALSE \in AuthOutcomes
    /\ req' = r
    /\ authed' = FALSE
    /\ IF Dispatch(r, disk).kind = "upload" /\ nextUuid <= MaxUuid
       THEN /\ nextUuid' = nextUuid + 1
            /\ Ends([disk EXCEPT ![UploadPath(nextUuid, r.target[1])] = 10],
                    <<Resp("401", "Authentication required", None)>>, None, NoRelease)
       ELSE /\ nextUuid' = nextUuid
            /\ Ends(disk, <<Resp("401", "Authentication required", None)>>, None,
                    NoRelease)
    /\ UNCHANGED <<currentConfig, tempFilePath, results, calls>>

RequestRejected(r) ==
    /\ pc = "idle"
    /\ r.transport \in RemoteHttp
    /\ FALSE \in AuthOutcomes
    /\ req' = r
    /\ authed' = FALSE
    /\ Ends(disk, <<Resp("401", "Authentication required", None)>>, None, NoRelease)
    /\ UNCHANGED <<currentConfig, nextUuid, tempFilePath, results, calls>>

Admitted(r) == r.transport \in RemoteHttp => TRUE \in AuthOutcomes

\* A request is answered, or fails, before any operation starts
RequestAnswered(r, queryKey) ==
    LET x == Dispatch(r, disk)
    IN  /\ pc = "idle"
        /\ Admitted(r)
        /\ x.kind \in {"respond", "throw"}
        /\ req' = r
        /\ authed' = TRUE
        /\ currentConfig' = setConfig(r.transport, currentConfig, queryKey)
        /\ Ends(disk, IF x.kind = "respond" THEN x.sent
                      ELSE CallToolReply(r, <<RespondError(r.transport, x)>>), None,
                 NoRelease)
        /\ UNCHANGED <<nextUuid, tempFilePath, results, calls>>

\* analyze_video_file: the handler calls analyzeVideo on the caller's path
RequestFile(r, queryKey, readOk) ==
    /\ pc = "idle"
    /\ Admitted(r)
    /\ Dispatch(r, disk).kind = "file"
    /\ req' = r
    /\ authed' = TRUE
    /\ currentConfig' = setConfig(r.transport, currentConfig, queryKey)
    /\ tempFilePath' = None
    /\ results' = <<>>
    /\ calls' = <<>>
    /\ CallAnalyzeVideo(r, r.transport, r.tool, disk, None, r.target, r.prompt,
                        currentConfig', readOk)
    /\ UNCHANGED nextUuid

\* analyze_video_url: the handler allocates the temp path and starts the
\* download. The WebSocket handler allocates before it touches the
\* arguments, so a message without arguments fails after the allocation.
RequestUrl(r, queryKey) ==
    LET tmp == TempPath(nextUuid)
        c == UrlCatch(r.transport, disk, tmp,
                      Threw("Cannot read properties of undefined", ""))
    IN  /\ pc = "idle"
        /\ Admitted(r)
        /\ Dispatch(r, disk).kind = "url"
        /\ nextUuid <= MaxUuid
        /\ req' = r
        /\ authed' = TRUE
        /\ currentConfig' = setConfig(r.transport, currentConfig, queryKey)
        /\ nextUuid' = nextUuid + 1
        /\ tempFilePath' = Some(tmp)
        /\ results' = <<>>
        /\ calls' = <<>>
        /\ IF ~r.hasArgs
           THEN Ends(c.disk, CallToolReply(r, c.sent), None, c.release)
           ELSE /\ pc' = "fetch"
                /\ UNCHANGED <<disk, out, ret, videoPart, prompts, release>>

\* POST /api/analyze/file: multer names the upload (one uuidv4() value),
\* streams it into TEMP_DIR and, above limits.fileSize, removes what it
\* wrote and fails into the error middleware; otherwise the handler calls
\* analyzeVideo on the stored file
RequestUpload(r, readOk) ==
    LET stored == UploadPath(nextUuid, r.target[1])
        size == disk[r.target[1]]
    IN  /\ pc = "idle"
        /\ Admitted(r)
        /\ Dispatch(r, disk).kind = "upload"
        /\ nextUuid <= MaxUuid
        /\ req' = r
        /\ authed' = TRUE
        /\ nextUuid' = nextUuid + 1
        /\ results' = <<>>
        /\ calls' = <<>>
        /\ IF size > MAX_FILE_SIZE
           THEN /\ tempFilePath' = None
                /\ Ends(disk, <<Resp("500", "Internal server error", None)>>, None,
                        NoRelease)
           ELSE /\ tempFilePath' = Some(stored)
                /\ CallAnalyzeVideo(r, r.transport, r.tool,
                                    [disk EXCEPT ![stored] = size], Some(stored),
                                    Some(stored), r.prompt, currentConfig, readOk)
        /\ UNCHANGED currentConfig

\* the temp directory lies under os.tmpdir(): while the provider is being
\* called something other than the server removes the request's temp file
TempReaped ==
    /\ pc = "generate"
    /\ tempFilePath # None
    /\ disk[tempFilePath[1]] # Absent
    /\ disk' = Unlink(disk, tempFilePath[1])
    /\ UNCHANGED <<currentConfig, nextUuid, req, pc, tempFilePath, videoPart,
                   prompts, results, calls, ret, out, release, authed>>

\* downloadFile, first await: fetch(url) rejects ("error"), answers with a
\* non-2xx status ("notok": downloadFile throws), or answers 2xx and the
\* write stream is opened on the temp path
downloadFileThrowsMutGeneric(outcome) == Threw("fetch failed", "")

downloadFileThrows(outcome) ==
    IF outcome = "notok" THEN Threw("Failed to download file: Not Found", "")
    ELSE Threw("fetch failed", "")

FetchSettles(outcome) ==
    LET tmp == tempFilePath[1]
        e == downloadFileThrows(outcome)
        c == UrlCatch(req.transport, disk, tmp, e)
    IN  /\ pc = "fetch"
        /\ (req.target = None \/ req.target[1] = BadUrl) => outcome = "error"
        /\ IF outcome = "ok"
           THEN /\ pc' = "pipeline"
                /\ disk' = [disk EXCEPT ![tmp] = 0]
                /\ UNCHANGED <<out, ret, videoPart, prompts, release>>
           ELSE Ends(c.disk, CallToolReply(req, c.sent), None, c.release)
        /\ UNCHANGED <<currentConfig, nextUuid, req, tempFilePath, results, calls, authed>>

\* downloadFile, second await: the stream pipeline fails part-way (what was
\* written stays on disk) and the handler's catch runs
PipelineFails ==
    LET tmp == tempFilePath[1]
        c == UrlCatch(req.transport, [disk EXCEPT ![tmp] = 1], tmp,
                      Threw("Premature close", ""))
    IN  /\ pc = "pipeline"
        /\ Ends(c.disk, CallToolReply(req, c.sent), None, c.release)
        /\ UNCHANGED <<currentConfig, nextUuid, req, tempFilePath, results, calls, authed>>

\* downloadFile, second await: the download completes with `size` bytes and
\* the handler calls analyzeVideo on the temp file
PipelineCompletes(size, readOk) ==
    LET tmp == tempFilePath[1]
    IN  /\ pc = "pipeline"
        /\ CallAnalyzeVideo(req, req.transport, req.tool, [disk EXCEPT ![tmp] = size],
                            tempFilePath, tempFilePath, req.prompt,
                            currentConfig, readOk)
        /\ UNCHANGED <<currentConfig, nextUuid, req, tempFilePath, results, calls, authed>>

\* model.generateContent([prompt, videoPart]) settles for the next prompt:
\* on success the result is pushed and the loop goes on or analyzeVideo
\* returns; on failure analyzeVideo's catch returns. Then the handler
\* concludes.
GenerateContentSettles(ok, message) ==
    LET prompt == prompts[Len(results) + 1]
        pushed == Append(results, [prompt |-> prompt, analysis |-> "text"])
        value == IF ok THEN [success |-> TRUE, results |-> pushed]
                 ELSE analyzeVideoCatch(results, message)
        c == Conclude(req.transport, req.tool, disk, tempFilePath, Returned(value))
    IN  /\ pc = "generate"
        /\ calls' = Append(calls, [prompt |-> prompt, mimeType |-> videoPart[1].mimeType,
                                   ok |-> ok])
        /\ IF loopContinues(ok, Len(IF ok THEN pushed ELSE results), Len(prompts))
           THEN /\ results' = IF ok THEN pushed ELSE results
                /\ UNCHANGED <<pc, disk, out, ret, videoPart, prompts, release>>
           ELSE /\ results' = IF ok THEN pushed ELSE results
                /\ Ends(c.disk, CallToolReply(req, c.sent), Some(value), c.release)
        /\ UNCHANGED <<currentConfig, nextUuid, req, tempFilePath, authed>>

\* the handler is over; the server waits for the next request
HandlerEnd ==
    /\ pc = "done"
    /\ pc' = "idle"
    /\ req' = NoReq
    /\ tempFilePath' = None
    /\ results' = <<>>
    /\ calls' = <<>>
    /\ ret' = None
    /\ out' = <<>>
    /\ release' = NoRelease
    /\ authed' = TRUE
    /\ UNCHANGED <<currentConfig, disk, nextUuid, videoPart, prompts>>

InitMain ==
    /\ currentConfig = [stdio |-> GOOGLE_API_KEY, sse |-> FALSE]
    /\ disk = InitDisk
    /\ nextUuid = 1
    /\ req = NoReq
    /\ pc = "idle"
    /\ tempFilePath = None
    /\ videoPart = None
    /\ prompts = <<>>
    /\ results = <<>>
    /\ calls = <<>>
    /\ ret = None
    /\ out = <<>>
    /\ release = NoRelease
    /\ authed = TRUE

(* ----------------- requests as the authenticator sees them ------------- *)

\* routes of remote-server.js registered with the authenticate middleware
AuthEndpoints ==
    {"POST /api/analyze/file", "POST /api/analyze/url", "GET /api/status",
     "POST /mcp tools/list", "POST /mcp tools/call",
     "POST /api/mcp/tools", "POST /api/mcp/call"}

\* routes registered without it
OpenEndpoints == {"GET /health", "GET /mcp"}

ListEndpoints == {"POST /mcp tools/list", "POST /api/mcp/tools"}

NoAuth == [kind |-> "none"]

NoConn == [state |-> "none", creds |-> None, sent |-> <<>>, closeCode |-> 0,
           dropped |-> 0]

\* An HTTP request to the remote server. The middleware chain runs
\* authenticate first; a route that is not an analysis route answers in the
\* same turn (status 200), an analysis route hands over to its handler
\* (status 0: the handler's own answer is not part of this step).
HttpRequest(endpoint, creds) ==
    LET guarded == endpoint \in AuthEndpoints
        admitted == ~guarded \/ authenticate(ENABLE_AUTH, API_KEY, creds)
        sync == endpoint \in ListEndpoints \cup OpenEndpoints \cup {"GET /api/status"}
    IN  /\ lastAuth.kind = "none"
        /\ lastAuth' = [kind |-> "http", endpoint |-> endpoint, creds |-> creds,
                        admitted |-> admitted,
                        status |-> IF ~admitted THEN 401
                                   ELSE IF sync THEN 200 ELSE 0,
                        tools |-> admitted /\ endpoint \in ListEndpoints]
        /\ UNCHANGED wsConn

\* ListTools on the stdio server and on the SSE server: no credential is
\* looked at
ProtocolListTools(server) ==
    /\ lastAuth.kind = "none"
    /\ lastAuth' = [kind |-> "protocol", server |-> server, tools |-> TRUE]
    /\ UNCHANGED wsConn

\* the exchange is over: the response has gone out
ExchangeDone ==
    /\ lastAuth.kind # "none"
    /\ lastAuth' = NoAuth
    /\ UNCHANGED wsConn

\* process.env.AUTH_USERNAME || 'admin', and the password whose hash is
\* process.env.AUTH_PASSWORD_HASH || bcrypt.hashSync('admin', 10)
AUTH_USERNAME == "admin"

AUTH_PASSWORD == "admin"

Usernames == {None, Some("admin"), Some("eve")}

Passwords == {None, Some("admin"), Some("guess")}

\* jwt.sign(payload, JWT_SECRET, { expiresIn: '24h' })
jwtSign(secret) == [signedWith |-> secret, expired |-> FALSE]

\* bcrypt.compareSync(password, validPasswordHash): bcryptjs throws
\* 'Illegal arguments' when the password is not a string
bcryptCompareSync(password) ==
    IF password = None THEN Threw("Illegal arguments: undefined, string", "")
    ELSE Returned(password[1] = AUTH_PASSWORD)

\* the body of the POST /api/auth/token handler: the answer, or the
\* exception that leaves the async handler
tokenEndpoint(username, password) ==
    IF username # Some(AUTH_USERNAME)
    THEN [kind |-> "respond", status |-> 401, token |-> None]
    ELSE IF bcryptCompareSync(password).kind = "throw"
         THEN bcryptCompareSync(password)
    ELSE IF bcryptCompareSync(password).value
         THEN [kind |-> "respond", status |-> 200, token |-> Some(jwtSign(JWT_SECRET))]
    ELSE [kind |-> "respond", status |-> 401, token |-> None]

\* what the client sees when an exception leaves an async route handler:
\* the error middleware's 500 where the framework forwards the rejection,
\* no answer at all (0) where it does not
UnhandledOutcomes == {500, 0}

\* POST /api/auth/token (registered without the authenticate middleware)
TokenRequest(username, password, unhandled) ==
    LET x == tokenEndpoint(username, password)
    IN  /\ lastAuth.kind = "none"
        /\ lastAuth' = [kind |-> "token", username |-> username, password |-> password,
                        status |-> IF x.kind = "respond" THEN x.status ELSE unhandled,
                        token |-> IF x.kind = "respond" THEN x.token ELSE None]
        /\ UNCHANGED wsConn

\* wss.on('connection'): the handshake. An accepted connection gets the
\* message handlers and the connected message; a rejected one gets the
\* error object and close(1008) and no handler.
WsConnectMutGreetRejected(creds) ==
    LET authenticated == wsAuthenticate(ENABLE_AUTH, API_KEY, creds)
    IN  /\ wsConn.state = "none"
        /\ wsConn' = IF authenticated
                     THEN [NoConn EXCEPT !.state = "open", !.creds = Some(creds),
                                         !.sent = <<"connected">>]
                     ELSE [NoConn EXCEPT !.state = "closed", !.creds = Some(creds),
                                         !.sent = <<"auth-error", "connected">>,
                                         !.closeCode = 1008]
        /\ UNCHANGED lastAuth

WsConnect(creds) ==
    LET authenticated == wsAuthenticate(ENABLE_AUTH, API_KEY, creds)
    IN  /\ wsConn.state = "none"
        /\ wsConn' = IF authenticated
                     THEN [NoConn EXCEPT !.state = "open", !.creds = Some(creds),
                                         !.sent = <<"connected">>]
                     ELSE [NoConn EXCEPT !.state = "closed", !.creds = Some(creds),
                                         !.sent = <<"auth-error">>,
                                         !.closeCode = 1008]
        /\ UNCHANGED lastAuth

\* a list_tools message from the client: an accepted connection answers with
\* the tools; a rejected one has no message handler and the message is lost
WsListTools ==
    /\ wsConn.state # "none"
    /\ Len(wsConn.sent) + wsConn.dropped <= MaxWsMessages
    /\ wsConn' = IF wsConn.state = "open"
                 THEN [wsConn EXCEPT !.sent = Append(@, "tools")]
                 ELSE [wsConn EXCEPT !.dropped = @ + 1]
    /\ UNCHANGED lastAuth

\* the client goes away; a new handshake can follow
WsClose ==
    /\ wsConn.state # "none"
    /\ wsConn' = NoConn
    /\ UNCHANGED lastAuth

(* ------------------- SSE server: the session registry ------------------ *)

\* number of GET /sse requests in one behaviour
MaxSessions == 2

\* number of times the close callback of one transport may fire
MaxCloses == 2

SessionIds == 1..MaxSessions

VARIABLES
    transports,       \* mcp-server.js: the keys of the Map of active transports
    nextSession,      \* the sessionId the next SSEServerTransport gets
    sseSession,       \* per session: how far its connection got, and the
                      \* number of times its close callback has fired
    sseLast           \* the last answer of POST /messages or GET /health

sseVars == <<transports, nextSession, sseSession, sseLast>>

mainRest == <<disk, nextUuid, req, pc, tempFilePath, videoPart, prompts,
              results, calls, ret, out, release, authed>>

\* transport.onclose = () => { transports.delete(transport.sessionId) }
oncloseMutClear(registry, sessionId) ==
    IF sessionId \in registry THEN registry \ {sessionId} ELSE {}

onclose(registry, sessionId) == registry \ {sessionId}

\* GET /sse, up to its await: the transport is created and stored under its
\* session id, then the server starts connecting to it
SseGet(queryKey) ==
    /\ nextSession <= MaxSessions
    /\ currentConfig' = setConfig("sse", currentConfig, queryKey)
    /\ transports' = transports \cup {nextSession}
    /\ sseSession' = [sseSession EXCEPT ![nextSession].state = "connecting"]
    /\ nextSession' = nextSession + 1
    /\ UNCHANGED sseLast

\* await server.connect(transport) settles: on success the stream is open;
\* on failure the catch block logs and answers 500 (the registry is not
\* touched)
SseConnectSettles(id, ok) ==
    /\ sseSession[id].state = "connecting"
    /\ sseSession' = [sseSession EXCEPT ![id].state = IF ok THEN "open" ELSE "failed"]
    /\ UNCHANGED <<transports, nextSession, sseLast, currentConfig>>

\* the transport's close callback fires (the client went away, or the
\* transport was closed; it may fire again on a transport already closed)
SseClose(id) ==
    /\ sseSession[id].state \in {"open", "failed", "closed"}
    /\ sseSession[id].closes < MaxCloses
    /\ transports' = onclose(transports, id)
    /\ sseSession' = [sseSession EXCEPT ![id].state = "closed", ![id].closes = @ + 1]
    /\ UNCHANGED <<nextSession, sseLast, currentConfig>>

\* what transport.handlePostMessage answers: 202 on an open stream, 500
\* ("SSE connection not established") on a transport without one
handlePostMessage(state) == IF state = "open" THEN 202 ELSE 500

\* POST /messages?sessionId=sid
SseMessage(sid, queryKey) ==
    /\ currentConfig' = setConfig("sse", currentConfig, queryKey)
    /\ sseLast' =
          IF sid = None
          THEN [kind |-> "messages", sid |-> sid, status |-> 400, handledBy |-> None]
          ELSE IF sid[1] \notin transports
               THEN [kind |-> "messages", sid |-> sid, status |-> 404, handledBy |-> None]
          ELSE [kind |-> "messages", sid |-> sid,
                status |-> handlePostMessage(sseSession[sid[1]].state),
                handledBy |-> sid]
    /\ UNCHANGED <<transports, nextSession, sseSession>>

\* GET /health
SseHealth(queryKey) ==
    /\ currentConfig' = setConfig("sse", currentConfig, queryKey)
    /\ sseLast' = [kind |-> "health", sid |-> None, status |-> 200,
                   handledBy |-> None, activeSessions |-> Cardinality(transports)]
    /\ UNCHANGED <<transports, nextSession, sseSession>>

InitSse ==
    /\ transports = {}
    /\ nextSession = 1
    /\ sseSession = [i \in SessionIds |-> [state |-> "none", closes |-> 0]]
    /\ sseLast = [kind |-> "none"]

(* ---------------------- client SDK: callToolWS ------------------------- *)

\* number of callToolWS calls in one behaviour
MaxCalls == 2

CallIds == 1..MaxCalls

VARIABLES
    wsOpen,           \* this.ws is set and its readyState is OPEN
    requestId,        \* this.requestId
    pendingRequests,  \* the keys of this.pendingRequests
    promise,          \* per call: the state of its promise and the number of
                      \* times resolve or reject was invoked on it
    timers,           \* the calls whose 30-second timer is armed
    received,         \* the call_tool messages that reached the server
    replied,          \* the replies the server has sent so far
    wire              \* the replies on their way to the client

clientVars == <<wsOpen, requestId, pendingRequests, promise, timers, received,
                replied, wire>>

Replies == [type : {"tool_result", "error"}, id : CallIds]

\* resolve or reject is invoked on the promise of call id: the first
\* invocation settles it, a later one has no effect on its state
settle(pr, id, how) ==
    [pr EXCEPT ![id] = [state |-> IF @.state = "pending" THEN how ELSE @.state,
                        settles |-> @.settles + 1]]

\* client.connectWebSocket() completes
ClientConnect ==
    /\ ~wsOpen
    /\ wsOpen' = TRUE
    /\ UNCHANGED <<requestId, pendingRequests, promise, timers, received, replied, wire>>

\* the socket closes: this.ws = null; replies on their way are lost and
\* the server has no connection left to answer the calls it received
ClientSocketCloses ==
    /\ wsOpen
    /\ wsOpen' = FALSE
    /\ wire' = {}
    /\ received' = {}
    /\ UNCHANGED <<requestId, pendingRequests, promise, timers, replied>>

\* callToolWS without the setTimeout of lines 737-742
CallToolWSMutNoTimer ==
    LET id == requestId + 1
    IN  /\ requestId < MaxCalls
        /\ requestId' = id
        /\ pendingRequests' = pendingRequests \cup {id}
        /\ IF wsOpen
           THEN /\ promise' = [promise EXCEPT ![id].state = "pending"]
                /\ received' = received \cup {id}
           ELSE /\ promise' = settle([promise EXCEPT ![id].state = "pending"],
                                     id, "rejected-not-connected")
                /\ UNCHANGED received
        /\ UNCHANGED <<wsOpen, replied, wire, timers>>

\* callToolWS(toolName, args): the executor registers the call, sends the
\* message and arms the timer; sendWebSocketMessage throws when the socket
\* is not open, which rejects the promise before the timer is armed
CallToolWS ==
    LET id == requestId + 1
    IN  /\ requestId < MaxCalls
        /\ requestId' = id
        /\ pendingRequests' = pendingRequests \cup {id}
        /\ IF wsOpen
           THEN /\ promise' = [promise EXCEPT ![id].state = "pending"]
                /\ received' = received \cup {id}
                /\ timers' = timers \cup {id}
           ELSE /\ promise' = settle([promise EXCEPT ![id].state = "pending"],
                                     id, "rejected-not-connected")
                /\ UNCHANGED <<received, timers>>
        /\ UNCHANGED <<wsOpen, replied, wire>>

\* the server sends a tool_result or an error for a call it received
ServerReplies(m) ==
    /\ wsOpen
    /\ m.id \in received
    /\ m \notin replied
    /\ replied' = replied \cup {m}
    /\ wire' = wire \cup {m}
    /\ UNCHANGED <<wsOpen, requestId, pendingRequests, promise, timers, received>>

\* if (message.id && this.pendingRequests.has(message.id))
correlates(pending, m) == m.id # 0 /\ m.id \in pending

\* handleWebSocketMessage(message) for a tool_result or an error
HandleWebSocketMessage(m) ==
    /\ m \in wire
    /\ wire' = wire \ {m}
    /\ IF correlates(pendingRequests, m)
       THEN /\ pendingRequests' = pendingRequests \ {m.id}
            /\ promise' = settle(promise, m.id,
                                 IF m.type = "tool_result" THEN "resolved"
                                 ELSE "rejected-error")
       ELSE UNCHANGED <<pendingRequests, promise>>
    /\ UNCHANGED <<wsOpen, requestId, timers, received, replied>>

\* if (this.pendingRequests.has(id)) in the timer callback
timerRejectsMutAlways(pending, id) == TRUE

timerRejects(pending, id) == id \in pending

\* the 30-second timer of call id fires
Timeout(id) ==
    /\ id \in timers
    /\ timers' = timers \ {id}
    /\ IF timerRejects(pendingRequests, id)
       THEN /\ pendingRequests' = pendingRequests \ {id}
            /\ promise' = settle(promise, id, "rejected-timeout")
       ELSE UNCHANGED <<pendingRequests, promise>>
    /\ UNCHANGED <<wsOpen, requestId, received, replied, wire>>

InitClient ==
    /\ wsOpen = FALSE
    /\ requestId = 0
    /\ pendingRequests = {}
    /\ promise = [i \in CallIds |-> [state |-> "none", settles |-> 0]]
    /\ timers = {}
    /\ received = {}
    /\ replied = {}
    /\ wire = {}

(* ------------------- requests in flight at the same time --------------- *)

\* how many URL requests the servers of one host have in flight at once
MaxInflight == 2

SlotIds == 1..MaxInflight

VARIABLES
    inflight          \* the analyze_video_url handlers suspended at an await

\* how many call_tool messages one WebSocket connection carries
MaxWsCalls == 2

WsCallIds == 1..MaxWsCalls

VARIABLES
    wsCalls,          \* per call_tool message of one connection: the locals
                      \* of its message handler (id, tool, args, tempFilePath)
    wsSent            \* what ws.send has put on that connection, in order

wsCallVars == <<wsCalls, wsSent>>

concVars == <<inflight, wsCallVars>>

\* what the handlers of this section leave alone
servingVars == <<req, pc, tempFilePath, videoPart, prompts, results, calls,
                 ret, out, release, authed>>

\* the adapters whose URL handlers are interleaved
ConcTransports == {"rest", "ws", "sse"}

Free ==
    [transport |-> "none", pc |-> "free", tmp |-> None, gone |-> FALSE,
     keyAtStart |-> FALSE, keyUsed |-> None, sent |-> <<>>]

\* the handler in slot i ends: what it sent (ws.send on a socket the caller
\* has closed delivers nothing)
ConcEnds(i, c) ==
    /\ disk' = c.disk
    /\ inflight' = [inflight EXCEPT ![i].pc = "done", ![i].sent = c.sent]

\* a URL request with a video_url and an analysis_prompt arrives: the
\* middleware of mcp-server.js sets the configuration, the handler allocates
\* its temp path and starts the download
ConcRequestUrl(i, t, queryKey) ==
    /\ inflight[i].pc = "free"
    /\ Admitted([transport |-> t])
    /\ nextUuid <= MaxUuid
    /\ currentConfig' = setConfig(t, currentConfig, queryKey)
    /\ nextUuid' = nextUuid + 1
    /\ inflight' = [inflight EXCEPT ![i] =
            [transport |-> t, pc |-> "fetch", tmp |-> Some(TempPath(nextUuid)),
             gone |-> FALSE,
             keyAtStart |-> hasGoogleKey(Engine(t), currentConfig', GOOGLE_API_KEY),
             keyUsed |-> None, sent |-> <<>>]]
    /\ UNCHANGED disk

\* downloadFile of slot i, first await
ConcFetchSettles(i, outcome) ==
    LET h == inflight[i]
        c == UrlCatch(h.transport, disk, h.tmp[1], downloadFileThrows(outcome))
    IN  /\ h.pc = "fetch"
        /\ IF outcome = "ok"
           THEN /\ disk' = [disk EXCEPT ![h.tmp[1]] = 0]
                /\ inflight' = [inflight EXCEPT ![i].pc = "pipeline"]
           ELSE ConcEnds(i, c)
        /\ UNCHANGED <<currentConfig, nextUuid>>

\* downloadFile of slot i, second await, failing part-way
ConcPipelineFails(i) ==
    LET h == inflight[i]
        c == UrlCatch(h.transport, [disk EXCEPT ![h.tmp[1]] = 1], h.tmp[1],
                      Threw("Premature close", ""))
    IN  /\ h.pc = "pipeline"
        /\ ConcEnds(i, c)
        /\ UNCHANGED <<currentConfig, nextUuid>>

\* downloadFile of slot i completes and the handler calls analyzeVideo, which
\* reads the credential in force now
ConcPipelineCompletes(i) ==
    LET h == inflight[i]
        d == [disk EXCEPT ![h.tmp[1]] = 10]
        b == analyzeVideoBegin(Engine(h.transport), currentConfig, GOOGLE_API_KEY,
                               d, h.tmp, TRUE)
        c == Conclude(h.transport, "analyze_video_url", d, h.tmp, b)
        used == Some(hasGoogleKey(Engine(h.transport), currentConfig, GOOGLE_API_KEY))
    IN  /\ h.pc = "pipeline"
        /\ IF b.kind = "await"
           THEN /\ disk' = d
                /\ inflight' = [inflight EXCEPT ![i].pc = "generate",
                                                ![i].keyUsed = used]
           ELSE /\ disk' = c.disk
                /\ inflight' = [inflight EXCEPT ![i].pc = "done", ![i].sent = c.sent,
                                                ![i].keyUsed = used]
        /\ UNCHANGED <<currentConfig, nextUuid>>

\* the provider call of slot i (one prompt) settles and the handler concludes
ConcGenerateContentSettles(i, ok) ==
    LET h == inflight[i]
        value == IF ok THEN [success |-> TRUE,
                             results |-> <<[prompt |-> "custom prompt",
                                            analysis |-> "text"]>>]
                 ELSE analyzeVideoCatch(<<>>, "503 unavailable")
        c == Conclude(h.transport, "analyze_video_url", disk, h.tmp, Returned(value))
    IN  /\ h.pc = "generate"
        /\ ConcEnds(i, c)
        /\ UNCHANGED <<currentConfig, nextUuid>>

\* ws.on('close'): the caller of slot i goes away; the listener only logs
ConcWsCloseMutAbort(i) ==
    /\ inflight[i].transport = "ws"
    /\ inflight[i].pc \in {"fetch", "pipeline", "generate"}
    /\ ~inflight[i].gone
    /\ inflight' = [inflight EXCEPT ![i].gone = TRUE, ![i].pc = "done"]
    /\ UNCHANGED <<currentConfig, disk, nextUuid>>

ConcWsClose(i) ==
    /\ inflight[i].transport = "ws"
    /\ inflight[i].pc \in {"fetch", "pipeline", "generate"}
    /\ ~inflight[i].gone
    /\ inflight' = [inflight EXCEPT ![i].gone = TRUE]
    /\ UNCHANGED <<currentConfig, disk, nextUuid>>

\* any other request reaches mcp-server.js (GET /health, another client's
\* POST /messages): its middleware sets the configuration
ConcOtherRequest(queryKey) ==
    /\ currentConfig' = setConfig("sse", currentConfig, queryKey)
    /\ UNCHANGED <<disk, nextUuid, inflight>>

\* the handler of slot i is over
ConcHandlerEnd(i) ==
    /\ inflight[i].pc = "done"
    /\ inflight' = [inflight EXCEPT ![i] = Free]
    /\ UNCHANGED <<currentConfig, disk, nextUuid>>

\* the ids a client puts into its call_tool messages
WsIds == {1, 2}

WsTools == {"analyze_video_file", "analyze_video_url", "other"}

\* arguments of a call_tool message: absent, or naming a file or a URL
WsArguments == {None, Some("a"), Some("b")}

NoCall == [pc |-> "none", id |-> 0, tool |-> "none", args |-> None, tmp |-> "none"]

\* the id of the reply that the handler of call k sends, as the handler
\* of the latest message would have it
WsReplyIdMutLatest(cs, k) ==
    cs[CHOOSE j \in WsCallIds :
              /\ cs[j].tool # "none"
              /\ \A l \in WsCallIds : cs[l].tool # "none" => l <= j].id

\* const { tool, arguments: args, id } = data: the id of the message that
\* this invocation of the handler was called with
WsReplyId(cs, k) == cs[k].id

\* ws.send of a tool_result: the text is the result of analyzeVideo for the
\* path or the download of this call
WsToolResult(k, success) ==
    [type |-> "tool_result", id |-> WsReplyId(wsCalls, k),
     content |-> <<wsCalls[k].tool, wsCalls[k].args, success>>, by |-> k]

\* ws.send of an error in the catch of the call_tool case
WsError(k, c, message) ==
    [type |-> "error", id |-> WsReplyId([wsCalls EXCEPT ![k] = c], k),
     content |-> <<c.tool, c.args, message>>, by |-> k]

\* the handler of call k sends m and returns
WsEnds(k, m, tmp) ==
    /\ wsSent' = Append(wsSent, m)
    /\ wsCalls' = [wsCalls EXCEPT ![k].pc = "done", ![k].tmp = tmp]

\* a call_tool message arrives on the connection: the handler runs up to its
\* first await on the network, or to its reply when it has none
WsCallTool(k, id, tool, args) ==
    LET c == [pc |-> "none", id |-> id, tool |-> tool, args |-> args, tmp |-> "none"]
    IN  /\ wsCalls[k].pc = "none"
        /\ \A j \in WsCallIds : j < k => wsCalls[j].pc # "none"
        /\ UNCHANGED inflight
        /\ CASE tool = "other" ->
                   /\ wsCalls' = [wsCalls EXCEPT ![k] = [c EXCEPT !.pc = "done"]]
                   /\ wsSent' = Append(wsSent, WsError(k, c, "Unknown tool"))
             [] args = None ->
                   /\ wsCalls' = [wsCalls EXCEPT ![k] = [c EXCEPT !.pc = "done"]]
                   /\ wsSent' = Append(wsSent, WsError(k, c, "TypeError"))
             [] tool = "analyze_video_file" /\ ~GOOGLE_API_KEY ->
                   /\ wsCalls' = [wsCalls EXCEPT ![k] = [c EXCEPT !.pc = "done"]]
                   /\ wsSent' = Append(wsSent, WsError(k, c, "GOOGLE_API_KEY"))
             [] tool = "analyze_video_file" /\ GOOGLE_API_KEY ->
                   /\ wsCalls' = [wsCalls EXCEPT ![k] = [c EXCEPT !.pc = "analyze"]]
                   /\ UNCHANGED wsSent
             [] OTHER ->
                   /\ wsCalls' = [wsCalls EXCEPT ![k] =
                                     [c EXCEPT !.pc = "download", !.tmp = "allocated"]]
                   /\ UNCHANGED wsSent

\* the download of call k settles: on success analyzeVideo is called, which
\* throws at once without a provider credential; on failure the catch
\* removes the temp file and the error is sent
WsDownloadSettles(k, ok) ==
    /\ wsCalls[k].pc = "download"
    /\ UNCHANGED inflight
    /\ IF ~ok
       THEN WsEnds(k, WsError(k, wsCalls[k], "download"), "removed")
       ELSE IF ~GOOGLE_API_KEY
       THEN WsEnds(k, WsError(k, wsCalls[k], "GOOGLE_API_KEY"), "removed")
       ELSE /\ wsCalls' = [wsCalls EXCEPT ![k].pc = "analyze"]
            /\ UNCHANGED wsSent

\* analyzeVideo of call k returns its result, which is sent as tool_result
\* after the temp file of a URL call has been removed
WsAnalyzeSettles(k, success) ==
    /\ wsCalls[k].pc = "analyze"
    /\ UNCHANGED inflight
    /\ WsEnds(k, WsToolResult(k, success),
              IF wsCalls[k].tmp = "allocated" THEN "removed" ELSE wsCalls[k].tmp)

InitConc ==
    /\ inflight = [i \in SlotIds |-> Free]
    /\ wsCalls = [k \in WsCallIds |-> NoCall]
    /\ wsSent = <<>>

configVars == <<ENABLE_AUTH, API_KEY, GOOGLE_API_KEY>>

InitConfig ==
    /\ ENABLE_AUTH \in BOOLEAN
    /\ API_KEY \in {None, Some("secret")}
    /\ GOOGLE_API_KEY \in BOOLEAN

\* the authenticator never reads GOOGLE_API_KEY
InitAuth ==
    /\ InitConfig
    /\ GOOGLE_API_KEY
    /\ lastAuth = NoAuth
    /\ wsConn = NoConn
    /\ InitMain
    /\ InitSse
    /\ InitClient
    /\ InitConc

NextAuth ==
    \/ \E e \in AuthEndpoints \cup OpenEndpoints, c \in HttpCreds :
            HttpRequest(e, c) /\ UNCHANGED <<configVars, mainVars, sseVars, clientVars, concVars>>
    \/ \E c \in WsCreds : WsConnect(c) /\ UNCHANGED <<configVars, mainVars, sseVars, clientVars, concVars>>
    \/ WsListTools /\ UNCHANGED <<configVars, mainVars, sseVars, clientVars, concVars>>
    \/ WsClose /\ UNCHANGED <<configVars, mainVars, sseVars, clientVars, concVars>>
    \/ ExchangeDone /\ UNCHANGED <<configVars, mainVars, sseVars, clientVars, concVars>>
    \/ \E s \in {"stdio", "sse"} :
            ProtocolListTools(s) /\ UNCHANGED <<configVars, mainVars, sseVars, clientVars, concVars>>
    \/ \E u \in Usernames, pw \in Passwords, o \in UnhandledOutcomes :
            TokenRequest(u, pw, o) /\ UNCHANGED <<configVars, mainVars, sseVars, clientVars, concVars>>

vars == <<configVars, authVars, mainVars, sseVars, clientVars, concVars>>

\* the authenticator, the WebSocket handshake and tool discovery
SpecAuth == InitAuth /\ [][NextAuth]_vars

\* The handlers see the authenticator only as admitting or refusing: with an
\* API key configured both happen (ENABLE_AUTH) or only the first, so the
\* configurations without one add nothing here; SpecAuth has them all.
Init ==
    /\ InitConfig
    /\ API_KEY # None
    /\ lastAuth = NoAuth
    /\ wsConn = NoConn
    /\ InitMain
    /\ InitSse
    /\ InitClient
    /\ InitConc

Next ==
    \/ \E r \in Requests : RequestRejected(r) /\ UNCHANGED <<configVars, authVars, sseVars, clientVars, concVars>>
    \/ \E r \in Requests, k \in BOOLEAN :
            RequestAnswered(r, k) /\ UNCHANGED <<configVars, authVars, sseVars, clientVars, concVars>>
    \/ \E r \in Requests, k \in BOOLEAN, readOk \in BOOLEAN :
            RequestFile(r, k, readOk) /\ UNCHANGED <<configVars, authVars, sseVars, clientVars, concVars>>
    \/ \E r \in Requests, k \in BOOLEAN :
            RequestUrl(r, k) /\ UNCHANGED <<configVars, authVars, sseVars, clientVars, concVars>>
    \/ \E r \in Requests, readOk \in BOOLEAN :
            RequestUpload(r, readOk) /\ UNCHANGED <<configVars, authVars, sseVars, clientVars, concVars>>
    \/ TempReaped /\ UNCHANGED <<configVars, authVars, sseVars, clientVars, concVars>>
    \/ \E o \in {"error", "notok", "ok"} :
            FetchSettles(o) /\ UNCHANGED <<configVars, authVars, sseVars, clientVars, concVars>>
    \/ PipelineFails /\ UNCHANGED <<configVars, authVars, sseVars, clientVars, concVars>>
    \/ \E size \in DownloadSizes, readOk \in BOOLEAN :
            PipelineCompletes(size, readOk) /\ UNCHANGED <<configVars, authVars, sseVars, clientVars, concVars>>
    \/ GenerateContentSettles(TRUE, "") /\ UNCHANGED <<configVars, authVars, sseVars, clientVars, concVars>>
    \/ \E m \in ProviderErrors :
            GenerateContentSettles(FALSE, m) /\ UNCHANGED <<configVars, authVars, sseVars, clientVars, concVars>>
    \/ HandlerEnd /\ UNCHANGED <<configVars, authVars, sseVars, clientVars, concVars>>

\* the servers serving analysis requests, one at a time
Spec == Init /\ [][Next]_vars

InitSseServer ==
    /\ ENABLE_AUTH = TRUE
    /\ API_KEY = None
    /\ GOOGLE_API_KEY \in BOOLEAN
    /\ lastAuth = NoAuth
    /\ wsConn = NoConn
    /\ InitMain
    /\ InitSse
    /\ InitClient
    /\ InitConc

NextSse ==
    \/ \E k \in BOOLEAN :
            SseGet(k) /\ UNCHANGED <<configVars, authVars, mainRest, clientVars, concVars>>
    \/ \E id \in SessionIds, ok \in BOOLEAN :
            SseConnectSettles(id, ok) /\ UNCHANGED <<configVars, authVars, mainRest, clientVars, concVars>>
    \/ \E id \in SessionIds :
            SseClose(id) /\ UNCHANGED <<configVars, authVars, mainRest, clientVars, concVars>>
    \/ \E sid \in {None} \cup {Some(i) : i \in SessionIds}, k \in BOOLEAN :
            SseMessage(sid, k) /\ UNCHANGED <<configVars, authVars, mainRest, clientVars, concVars>>
    \/ \E k \in BOOLEAN :
            SseHealth(k) /\ UNCHANGED <<configVars, authVars, mainRest, clientVars, concVars>>

\* the SSE server's connection endpoints and its session registry
SpecSse == InitSseServer /\ [][NextSse]_vars

InitClientSdk ==
    /\ ENABLE_AUTH = TRUE
    /\ API_KEY = None
    /\ GOOGLE_API_KEY = TRUE
    /\ lastAuth = NoAuth
    /\ wsConn = NoConn
    /\ InitMain
    /\ InitSse
    /\ InitClient
    /\ InitConc

NextClient ==
    \/ ClientConnect /\ UNCHANGED <<configVars, authVars, mainVars, sseVars, concVars>>
    \/ ClientSocketCloses /\ UNCHANGED <<configVars, authVars, mainVars, sseVars, concVars>>
    \/ CallToolWS /\ UNCHANGED <<configVars, authVars, mainVars, sseVars, concVars>>
    \/ \E m \in Replies :
            ServerReplies(m) /\ UNCHANGED <<configVars, authVars, mainVars, sseVars, concVars>>
    \/ \E m \in Replies :
            HandleWebSocketMessage(m) /\ UNCHANGED <<configVars, authVars, mainVars, sseVars, concVars>>
    \/ \E id \in CallIds :
            Timeout(id) /\ UNCHANGED <<configVars, authVars, mainVars, sseVars, concVars>>

\* the client SDK's WebSocket tool calls against a server that replies
SpecClient == InitClientSdk /\ [][NextClient]_vars

\* the same, with the event loop of the client running: an armed timer
\* fires after its 30 seconds (setTimeout, stdio-server.js 737)
SpecClientFair ==
    /\ InitClientSdk
    /\ [][NextClient]_vars
    /\ \A id \in CallIds : WF_vars(Timeout(id) /\ UNCHANGED <<configVars, authVars, mainVars, sseVars, concVars>>)

InitConcServers ==
    /\ ENABLE_AUTH = TRUE
    /\ API_KEY = None
    /\ GOOGLE_API_KEY \in BOOLEAN
    /\ lastAuth = NoAuth
    /\ wsConn = NoConn
    /\ InitMain
    /\ InitSse
    /\ InitClient
    /\ InitConc

NextConc ==
    \/ \E i \in SlotIds, t \in ConcTransports, k \in BOOLEAN :
            ConcRequestUrl(i, t, k)
                /\ UNCHANGED <<configVars, authVars, servingVars, sseVars, clientVars, wsCallVars>>
    \/ \E i \in SlotIds, o \in {"error", "notok", "ok"} :
            ConcFetchSettles(i, o)
                /\ UNCHANGED <<configVars, authVars, servingVars, sseVars, clientVars, wsCallVars>>
    \/ \E i \in SlotIds :
            ConcPipelineFails(i)
                /\ UNCHANGED <<configVars, authVars, servingVars, sseVars, clientVars, wsCallVars>>
    \/ \E i \in SlotIds :
            ConcPipelineCompletes(i)
                /\ UNCHANGED <<configVars, authVars, servingVars, sseVars, clientVars, wsCallVars>>
    \/ \E i \in SlotIds, ok \in BOOLEAN :
            ConcGenerateContentSettles(i, ok)
                /\ UNCHANGED <<configVars, authVars, servingVars, sseVars, clientVars, wsCallVars>>
    \/ \E i \in SlotIds :
            ConcWsClose(i)
                /\ UNCHANGED <<configVars, authVars, servingVars, sseVars, clientVars, wsCallVars>>
    \/ \E k \in BOOLEAN :
            ConcOtherRequest(k)
                /\ UNCHANGED <<configVars, authVars, servingVars, sseVars, clientVars, wsCallVars>>
    \/ \E i \in SlotIds :
            ConcHandlerEnd(i)
                /\ UNCHANGED <<configVars, authVars, servingVars, sseVars, clientVars, wsCallVars>>

\* URL requests of several callers served at the same time
SpecConc == InitConcServers /\ [][NextConc]_vars

NextWsCalls ==
    \/ \E k \in WsCallIds, id \in WsIds, tool \in WsTools, args \in WsArguments :
            WsCallTool(k, id, tool, args)
                /\ UNCHANGED <<configVars, authVars, mainVars, sseVars, clientVars>>
    \/ \E k \in WsCallIds, ok \in BOOLEAN :
            WsDownloadSettles(k, ok)
                /\ UNCHANGED <<configVars, authVars, mainVars, sseVars, clientVars>>
    \/ \E k \in WsCallIds, success \in BOOLEAN :
            WsAnalyzeSettles(k, success)
                /\ UNCHANGED <<configVars, authVars, mainVars, sseVars, clientVars>>

\* several call_tool messages in flight on one accepted WebSocket connection
SpecWsCalls == InitConcServers /\ [][NextWsCalls]_vars

(* ======================= properties: authenticator ===================== *)

ValidToken == [signedWith |-> JWT_SECRET, expired |-> FALSE]

ForgedToken == [signedWith |-> "other-secret", expired |-> FALSE]

\* the request in lastAuth went through the authenticate middleware
HttpGuarded == lastAuth.kind = "http" /\ lastAuth.endpoint \in AuthEndpoints

\* the caller put the shared secret into the header or into the query
HttpPresentsSecret ==
    API_KEY # None /\ (lastAuth.creds.xApiKey = API_KEY
                        \/ lastAuth.creds.queryApiKey = API_KEY)

HttpPresentsValidToken ==
    lastAuth.creds.authorization = Some(<<"Bearer", ValidToken>>)

Handshaken == wsConn.state # "none"

WsPresentsSecret == API_KEY # None /\ wsConn.creds[1].api_key = API_KEY

WsPresentsValidToken == wsConn.creds[1].token = Some(ValidToken)

WsRejected ==
    wsConn.state = "closed" /\ wsConn.closeCode = 1008 /\ wsConn.sent = <<"auth-error">>

\* C4 (as claimed): with authentication enabled and a shared secret
\* configured, a caller presenting the secret is admitted, a caller with a
\* wrong or no secret and no valid token is rejected (401 / close 1008), and
\* a caller with a valid token is admitted whatever secret it presents.
C4_SecretOrTokenDecides ==
    (ENABLE_AUTH /\ API_KEY # None) =>
        /\ HttpGuarded =>
              /\ HttpPresentsSecret => lastAuth.admitted
              /\ HttpPresentsValidToken => lastAuth.admitted
              /\ (~HttpPresentsSecret /\ ~HttpPresentsValidToken)
                    => (~lastAuth.admitted /\ lastAuth.status = 401)
        /\ Handshaken =>
              /\ WsPresentsSecret => wsConn.state = "open"
              /\ WsPresentsValidToken => wsConn.state = "open"
              /\ (~WsPresentsSecret /\ ~WsPresentsValidToken) => WsRejected

\* C7 (as claimed): with authentication enabled and no shared secret
\* configured, a caller without a valid token (none, or one that fails
\* verification) is admitted, by the HTTP middleware and by the WebSocket
\* handshake alike.
C7_PermissiveFallback ==
    (ENABLE_AUTH /\ API_KEY = None) =>
        /\ (HttpGuarded /\ ~HttpPresentsValidToken) => lastAuth.admitted
        /\ (Handshaken /\ ~WsPresentsValidToken) => wsConn.state = "open"

\* C8: with authentication disabled every HTTP request and every WebSocket
\* handshake is admitted, whatever credentials it carries.
C8_DisabledAdmitsAll ==
    ~ENABLE_AUTH =>
        /\ lastAuth.kind = "http" => (lastAuth.admitted /\ lastAuth.status # 401)
        /\ Handshaken => (wsConn.state = "open" /\ wsConn.closeCode = 0)

\* C8 witness: authentication is off, a shared secret is configured, and a
\* request with a wrong key and a forged token as well as a handshake with a
\* wrong key and a forged token have both been admitted
C8_Witness ==
    /\ ~ENABLE_AUTH /\ API_KEY # None
    /\ HttpGuarded
    /\ lastAuth.creds.xApiKey = Some("wrong")
    /\ lastAuth.creds.authorization = Some(<<"Bearer", ForgedToken>>)
    /\ lastAuth.admitted
    /\ wsConn.state = "open"
    /\ wsConn.creds = Some([api_key |-> Some("wrong"), token |-> Some(ForgedToken)])

\* the credentials the HTTP authenticator accepts, stated on the request
HttpAcceptable ==
    \/ ~ENABLE_AUTH
    \/ API_KEY = None
    \/ lastAuth.creds.xApiKey = API_KEY
    \/ lastAuth.creds.xApiKey = None /\ lastAuth.creds.queryApiKey = API_KEY
    \/ \E t \in Tokens : /\ lastAuth.creds.authorization = Some(<<"Bearer", t>>)
                         /\ t = ValidToken

\* the credentials the WebSocket handshake accepts
WsAcceptable ==
    \/ ~ENABLE_AUTH
    \/ API_KEY # None /\ wsConn.creds[1].api_key = API_KEY
    \/ wsConn.creds[1].token = Some(ValidToken)
    \/ API_KEY = None /\ wsConn.creds[1].token = None

UrlOperation == tempFilePath # None /\ req.tool = "analyze_video_url"

\* C1 (as claimed): once a URL operation has completed, on whatever exit
\* path and on whichever server, the temp file allocated for it does not
\* exist on disk.
C1_TempFileGone ==
    (pc = "done" /\ UrlOperation) => disk[tempFilePath[1]] = Absent

\* C2: a value returned by analyzeVideo is either success=true with a
\* non-empty results list and no error field, or success=false with an error
\* field and no results field.
C2_TwoShapes ==
    ret # None =>
        \/ /\ ret[1].success
           /\ DOMAIN ret[1] = {"success", "results"}
           /\ Len(ret[1].results) > 0
        \/ /\ ~ret[1].success
           /\ DOMAIN ret[1] = {"success", "error"}

\* C2 witness: analyzeVideo has returned a failure after it had already
\* collected results
C2_Witness ==
    /\ ret # None
    /\ ~ret[1].success
    /\ Len(results) = 2

\* the provider call for prompt k failed
FailedAt(k) == k \in 1..Len(calls) /\ ~calls[k].ok

\* C3: if the provider call for prompt k fails, no call is issued for the
\* prompts after it, and analyzeVideo returns success=false with the
\* (non-empty) error and without any results.
C3_AbortOnFailure ==
    \A k \in 1..Len(calls) :
        FailedAt(k) =>
            /\ k = Len(calls)
            /\ pc = "done"
            /\ ret # None
            /\ ~ret[1].success
            /\ ret[1].error \in ProviderErrors
            /\ ret[1].error # ""
            /\ "results" \notin DOMAIN ret[1]

\* C3 witness: of five prompts the third call failed after two results
C3_Witness ==
    /\ FailedAt(3)
    /\ Len(results) = 2
    /\ req.prompt = None

\* C6: on an accepted WebSocket connection the handler of an inbound message
\* never sends more than one message, and has sent exactly one when it ends.
C6_OneReplyPerMessage ==
    req.transport = "ws" =>
        /\ Len(out) <= 1
        /\ pc = "done" => Len(out) = 1

\* C6 witness: a call_tool for analyze_video_url whose download failed has
\* been answered with one error message
C6_Witness ==
    /\ req.transport = "ws"
    /\ pc = "done"
    /\ UrlOperation
    /\ req.hasArgs
    /\ Len(out) = 1
    /\ out[1].status = "error"

\* analyzeVideo was called without a prompt and returned success
NoPromptSuccess == req.transport # "none" /\ req.prompt = None /\ ret # None /\ ret[1].success

\* C9 (as claimed): without a prompt, on a valid asset and with every
\* provider call succeeding, analyzeVideo issues exactly five calls with the
\* documented default prompts in order and returns five results whose i-th
\* prompt is the i-th default prompt.
C9_FiveDefaultPrompts ==
    NoPromptSuccess =>
        /\ Len(calls) = 5
        /\ Len(ret[1].results) = 5
        /\ \A i \in 1..5 : /\ calls[i].prompt = defaultPrompts[i]
                           /\ ret[1].results[i].prompt = defaultPrompts[i]

\* analyzeVideo was called with a non-empty custom prompt
CustomPromptGiven ==
    req.transport # "none" /\ req.prompt # None /\ req.prompt[1] # ""

\* C10: with a non-empty custom prompt the provider is called at most once
\* and with that prompt only, and on success it was called exactly once and
\* the result list has one element whose prompt is the supplied prompt.
C10_SinglePrompt ==
    CustomPromptGiven =>
        /\ Len(calls) <= 1
        /\ \A i \in 1..Len(calls) : calls[i].prompt = req.prompt[1]
        /\ (ret # None /\ ret[1].success) =>
              /\ Len(calls) = 1
              /\ Len(ret[1].results) = 1
              /\ ret[1].results[1].prompt = req.prompt[1]

\* C10 witness: a custom prompt was analysed successfully
C10_Witness ==
    /\ CustomPromptGiven
    /\ ret # None
    /\ ret[1].success
    /\ Len(calls) = 1

(* ====================== properties: video validator ==================== *)

\* C11 (as claimed): whenever a file is handed to the provider, on whichever
\* server, its extension is one of the five of the fixed table and the MIME
\* type it is sent under is the one the table maps that extension to; no
\* file with another extension is analysed under a default MIME type.
C11_TableMimeOnly ==
    videoPart # None =>
        /\ toLowerCase(extname(videoPart[1].path)) \in DOMAIN SUPPORTED_FORMATS
        /\ videoPart[1].mimeType =
              SUPPORTED_FORMATS[toLowerCase(extname(videoPart[1].path))]

\* analyzeVideo of remote-server.js or of the stdio server has validated the
\* caller's existing file of a supported extension, and has gone on to the
\* provider or has returned
FileValidated ==
    /\ req.transport # "none"
    /\ Engine(req.transport) \in {"remote", "stdio"}
    /\ req.tool = "analyze_video_file"
    /\ existsSync(disk, req.target)
    /\ toLowerCase(extname(req.target[1])) \in DOMAIN SUPPORTED_FORMATS
    /\ (pc = "generate" \/ ret # None)

TooLargeReturned ==
    ret # None /\ ~ret[1].success /\ ret[1].error = "File too large"

\* C12: for an existing file with a supported extension, validation fails
\* with the too-large error if and only if the size is strictly greater than
\* 100 * 1024 * 1024 bytes; a file of exactly that size passes. Stated on the
\* validator for every file on disk and on the requests that ran it.
C12_TooLargeIffAboveCeiling ==
    /\ \A p \in Paths :
          (disk[p] # Absent /\ toLowerCase(extname(p)) \in DOMAIN SUPPORTED_FORMATS) =>
              /\ (validateVideoFile(disk, Some(p)) = Threw("File too large", "InvalidRequest"))
                    <=> (disk[p] > 100 * 1024 * 1024)
              /\ disk[p] <= 100 * 1024 * 1024 =>
                    validateVideoFile(disk, Some(p)) = Returned(SUPPORTED_FORMATS[toLowerCase(extname(p))])
    /\ FileValidated =>
          (TooLargeReturned <=> disk[req.target[1]] > 100 * 1024 * 1024)

\* C12 witness: a file of exactly the ceiling size has passed validation and
\* is being analysed under its table MIME type
C12_Witness ==
    /\ FileValidated
    /\ pc = "generate"
    /\ disk[req.target[1]] = MAX_FILE_SIZE
    /\ videoPart[1].mimeType = "video/x-msvideo"

(* ========================= properties: dispatch ======================== *)

\* the adapters that take tool calls by name
ToolAdapters == {"mcp", "mcpcall", "ws", "stdio", "sse", "mock"}

\* the request being served is a tool call that passed the authenticator
AdmittedToolCall ==
    /\ req.transport \in ToolAdapters
    /\ req.type = "call_tool"
    /\ pc = "done"
    /\ ~(Len(out) = 1 /\ out[1].status = "401")

\* the answer is the adapter's not-found error
NotFoundAnswer ==
    /\ Len(out) = 1
    /\ out[1].result = None
    /\ CASE req.transport \in {"mcp", "mcpcall"} -> out[1].status = "404"
         [] req.transport = "ws" ->
               out[1].status = "error" /\ out[1].error = "Unknown tool"
         [] req.transport \in {"stdio", "sse"} -> out[1].status = "MethodNotFound"
         [] OTHER -> out[1].status = "isError"

\* C13: a call naming a tool that does not exist on the server is answered
\* with the adapter's not-found error (HTTP 404, a WebSocket error message
\* carrying the request's id, protocol MethodNotFound, an isError result on
\* the mock stdio server); nothing was allocated or called for it, and the
\* handler is over so that the server takes the next request.
C13_UnknownToolNotFound ==
    (AdmittedToolCall /\ req.tool # "" /\ req.tool \notin ListedTools(req.transport)) =>
        /\ NotFoundAnswer
        /\ req.transport = "ws" => out[1].id = req.id
        /\ tempFilePath = None
        /\ calls = <<>>
        /\ ENABLED HandlerEnd

\* C13 witness: a WebSocket call_tool with id 1 named a tool that does not
\* exist and got the error message with id 1
C13_Witness ==
    /\ AdmittedToolCall
    /\ req.transport = "ws"
    /\ req.tool = "no_such_tool"
    /\ req.id = Some(1)
    /\ out = <<[status |-> "error", error |-> "Unknown tool", result |-> None,
                id |-> Some(1)]>>

\* C17: when the download of a URL operation gets a non-successful HTTP
\* response, the operation ends in that step with one failure answer
\* carrying 'Failed to download file: <status text>', without a result, with
\* no provider call issued and no temp file on disk.
C17_DownloadNotOk ==
    [][FetchSettles("notok") =>
          /\ pc' = "done"
          /\ Len(out') = 1
          /\ out'[1].error = "Failed to download file: Not Found"
          /\ out'[1].result = None
          /\ out'[1].status \in {"500", "error", "InternalError"}
          /\ ret' = None
          /\ calls' = <<>>
          /\ disk'[tempFilePath[1]] = Absent]_vars

\* C17 witness: a URL operation has ended with the download failure text
C17_Witness ==
    /\ pc = "done"
    /\ UrlOperation
    /\ Len(out) = 1
    /\ out[1].error = "Failed to download file: Not Found"
    /\ disk[tempFilePath[1]] = Absent
    /\ calls = <<>>

CanonicalOperations == {"analyze_video_file", "analyze_video_url", "get_server_status"}

C14_UnregisterIdempotent ==
    [][\A id \in SessionIds :
          id \notin transports =>
              /\ onclose(transports, id) = transports
              /\ SseClose(id) => transports' = transports]_vars

\* C14 witness: the close callback of one session has fired twice while
\* another session is registered
C14_Witness ==
    \E id \in SessionIds, other \in SessionIds :
        /\ sseSession[id].closes = 2
        /\ id \notin transports
        /\ other \in transports

\* the session's stream has been requested and has not closed
SessionOpen(id) == sseSession[id].state \in {"connecting", "open"}

\* C15 (as claimed): the registry holds a session id exactly while that
\* session is connected and not closed, also after a failed connect; a
\* message for a closed or unknown session is answered 404 and reaches no
\* transport, one without id is answered 400, and activeSessions is the
\* number of open sessions.
C15_RegistryIffOpen ==
    /\ [](\A id \in SessionIds : id \in transports <=> SessionOpen(id))
    /\ [][/\ \A sid \in {None} \cup {Some(i) : i \in SessionIds}, k \in BOOLEAN :
                SseMessage(sid, k) =>
                    /\ sid = None => (sseLast'.status = 400 /\ sseLast'.handledBy = None)
                    /\ (sid # None /\ ~SessionOpen(sid[1])) =>
                          (sseLast'.status = 404 /\ sseLast'.handledBy = None)
          /\ \A k \in BOOLEAN :
                SseHealth(k) =>
                    sseLast'.activeSessions = Cardinality({id \in SessionIds : SessionOpen(id)})
         ]_vars

(* ========================= properties: client SDK ====================== *)

\* C16: resolve or reject is invoked at most once on the promise of a
\* callToolWS call, and a tool_result or error handled after the timeout has
\* rejected the call changes neither the promise nor pendingRequests.
C16_SettledAtMostOnce ==
    /\ [](\A id \in CallIds : promise[id].settles <= 1)
    /\ [][\A m \in Replies :
            (HandleWebSocketMessage(m) /\ promise[m.id].state = "rejected-timeout") =>
                (promise' = promise /\ pendingRequests' = pendingRequests)]_vars

\* C16 witness: a call was rejected by its timeout, and afterwards both the
\* tool_result and the error of the server for it were handled
C16_Witness ==
    \E id \in CallIds :
        /\ promise[id] = [state |-> "rejected-timeout", settles |-> 1]
        /\ id \in received
        /\ \A ty \in {"tool_result", "error"} :
              /\ [type |-> ty, id |-> id] \in replied
              /\ [type |-> ty, id |-> id] \notin wire

(* ================ properties: token endpoint and handshake ============= *)

\* C19 (as claimed): the token endpoint issues a token if and only if the
\* supplied username and password match the configured credential, answers
\* 401 whenever it issues none, and a token it issued is accepted by the
\* authenticator as a bearer token when no shared secret is presented.
C19_TokenIffCredentials ==
    lastAuth.kind = "token" =>
        /\ lastAuth.token # None <=>
              (lastAuth.username = Some(AUTH_USERNAME) /\ lastAuth.password = Some(AUTH_PASSWORD))
        /\ lastAuth.token = None => lastAuth.status = 401
        /\ lastAuth.token # None =>
              /\ lastAuth.status = 200
              /\ authenticate(ENABLE_AUTH, API_KEY,
                              [xApiKey |-> None, queryApiKey |-> None,
                               authorization |-> Some(<<"Bearer", lastAuth.token[1]>>)])

\* C20: an accepted WebSocket connection gets the connected message as the
\* first server message and never again; a connection rejected at the
\* handshake gets the error object only, is closed with 1008, and messages
\* it sends afterwards are neither processed nor answered.
C20_ConnectedOnceFirst ==
    Handshaken =>
        IF wsConn.state = "open"
        THEN /\ wsConn.sent[1] = "connected"
             /\ \A i \in 2..Len(wsConn.sent) : wsConn.sent[i] # "connected"
             /\ wsConn.closeCode = 0
        ELSE /\ wsConn.state = "closed"
             /\ wsConn.closeCode = 1008
             /\ wsConn.sent = <<"auth-error">>

\* C20 witness: a rejected connection has sent a message that was dropped
\* without an answer
C20_Witness ==
    /\ wsConn.state = "closed"
    /\ wsConn.dropped = 1
    /\ wsConn.sent = <<"auth-error">>

\* an accepted connection was greeted and then answered a list_tools message
C20_Accepted ==
    /\ wsConn.state = "open"
    /\ wsConn.sent = <<"connected", "tools">>


(* ------------------- validation, credential, retries ------------------- *)

\* C22: analyzeVideo validates the asset (existence, extension, size) before
\* it reads the file or calls the provider: whenever it has read a file and
\* goes on to the provider, that file passes validation, in every variant
C22_ValidationBeforeRead ==
    [][(videoPart = None /\ videoPart' # None) =>
            validateVideoFile(disk', Some(videoPart'[1].path)).kind = "return"]_vars


\* a step in which a handler calls analyzeVideo: on the caller's file, on a
\* stored upload, or on the temp file of a completed download
AnalyzeVideoCalled ==
    \/ \E k \in BOOLEAN, readOk \in BOOLEAN : RequestFile(req', k, readOk)
    \/ \E readOk \in BOOLEAN : RequestUpload(req', readOk) /\ tempFilePath' # None
    \/ \E size \in DownloadSizes, readOk \in BOOLEAN : PipelineCompletes(size, readOk)

\* no provider credential is configured for the engine of the request served
NoCredentialNext ==
    CASE Engine(req'.transport) = "remote" -> ~GOOGLE_API_KEY
      [] Engine(req'.transport) \in {"stdio", "sse"} ->
            ~currentConfig'[Engine(req'.transport)]
      [] OTHER -> FALSE

MissingCredentialMessage == "Google API key is required for video analysis"

\* C23: analyzeVideo called with no provider credential configured raises the
\* missing-credential error (it returns nothing), whatever the asset is, and
\* has then read no file and called the provider not at all; the adapter
\* answers with that error
C23_MissingCredentialRaises ==
    [][(pc # "done" /\ NoCredentialNext /\ AnalyzeVideoCalled) =>
            /\ pc' = "done"
            /\ ret' = None
            /\ videoPart' = None
            /\ calls' = <<>>
            /\ Len(out') = 1
            /\ out'[1].error = MissingCredentialMessage
            /\ out'[1].result = None]_vars

\* C23 witness: a file request on the remote server for a file that does not
\* exist, no credential configured: the answer is the missing-credential
\* error and not the validation failure
C23_Witness ==
    /\ pc = "done"
    /\ Engine(req.transport) = "remote"
    /\ req.tool = "analyze_video_file"
    /\ req.target = Some(<<"home", "gone", ".mp4">>)
    /\ ~GOOGLE_API_KEY
    /\ ret = None
    /\ out[1].error = MissingCredentialMessage

\* a provider credential is configured for the engine of the request served
HasCredentialNext ==
    CASE Engine(req'.transport) = "remote" -> GOOGLE_API_KEY
      [] Engine(req'.transport) \in {"stdio", "sse"} ->
            currentConfig'[Engine(req'.transport)]
      [] Engine(req'.transport) = "plain" -> TRUE
      [] OTHER -> FALSE

\* a step in which a provider call settles and analyzeVideo goes on
AnalyzeVideoResumes ==
    \/ GenerateContentSettles(TRUE, "")
    \/ \E m \in ProviderErrors : GenerateContentSettles(FALSE, m)

\* C24: with a credential configured analyzeVideo never raises: whenever it
\* is over it has returned a value; for a file that fails validation the
\* value is success=false with the validator's message, and for a failed
\* provider call success=false with the provider's message
C24_NeverRaises ==
    [][/\ (pc' = "done" /\ ret' = None)
            => ~((AnalyzeVideoCalled /\ HasCredentialNext) \/ AnalyzeVideoResumes)
       /\ (pc' = "done" /\ ret' # None /\ ~ret'[1].success) => ret'[1].error # ""
       /\ (/\ pc = "idle"
           /\ pc' # "idle"
           /\ authed'
           /\ Engine(req'.transport) \in {"remote", "stdio"}
           /\ HasCredentialNext
           /\ Dispatch(req', disk).kind = "file"
           /\ validateVideoFile(disk, req'.target).kind = "throw")
            => ret' = Some([success |-> FALSE,
                            error |-> validateVideoFile(disk, req'.target).msg])
       /\ \A m \in ProviderErrors :
            GenerateContentSettles(FALSE, m)
            => ret' = Some([success |-> FALSE, error |-> m])]_vars

\* C24 witness: analyzeVideo has returned success=false for a file that
\* exists and passes validation but cannot be read
C24_Witness ==
    /\ pc = "done"
    /\ req.tool = "analyze_video_file"
    /\ ret = Some([success |-> FALSE, error |-> "EACCES"])

\* C27: nothing is retried: a download starts only when a request starts,
\* no prompt is submitted to the provider twice, a failed provider call is
\* the last call of its request, and the message of a failed provider call
\* or download is the error the caller gets
C27_NoRetry ==
    /\ [](/\ \A i, j \in 1..Len(calls) : i # j => calls[i].prompt # calls[j].prompt
          /\ \A k \in 1..Len(calls) : ~calls[k].ok => k = Len(calls))
    /\ [][/\ pc' = "fetch" => pc \in {"idle", "fetch"}
          /\ pc' = "pipeline" => pc \in {"fetch", "pipeline"}
          /\ \A m \in ProviderErrors :
                GenerateContentSettles(FALSE, m) =>
                    /\ ret' = Some([success |-> FALSE, error |-> m])
                    /\ Len(calls') = Len(calls) + 1
          /\ FetchSettles("error") =>
                (pc' = "done" /\ out'[1].error = "fetch failed")]_vars

\* C27 witness: a URL request whose download completed and whose second
\* provider call failed: two calls were issued and the failure is returned
C27_Witness ==
    /\ pc = "done"
    /\ UrlOperation
    /\ Len(calls) = 2
    /\ ~calls[2].ok
    /\ ret = Some([success |-> FALSE, error |-> "503 unavailable"])


(* ================== properties: authentication first =================== *)

C29_ReleaseNeverRaises ==
    (pc = "done" /\ UrlOperation /\ ret # None) =>
        /\ Len(out) = 1
        /\ out[1].result = ret


\* C30: every URL operation that allocated a temp path has, when it is over,
\* gone through a release step (never zero times) and has called unlinkSync
\* on the path at most once (never a second deletion attempt)
C30_ReleasedExactlyOnce ==
    (pc = "done" /\ UrlOperation) =>
        /\ release.cleanups >= 1
        /\ release.unlinks <= 1


(* ================== properties: requests in flight together ============ *)

\* slot i holds a handler that has not ended
InFlight(i) == inflight[i].pc \in {"fetch", "pipeline", "generate"}

\* C21: a WebSocket caller's disconnect during its analyze_video_url call
\* cancels nothing: the step changes neither the handler's position nor the
\* disk, the handler's next step stays possible, and when the handler is over
\* its temp file is deleted
C21_DisconnectCancelsNothing ==
    /\ [](\A i \in SlotIds :
            /\ (inflight[i].gone /\ inflight[i].pc = "done") =>
                    disk[inflight[i].tmp[1]] = Absent
            /\ (inflight[i].gone /\ inflight[i].pc = "fetch") =>
                    ENABLED ConcFetchSettles(i, "ok")
            /\ (inflight[i].gone /\ inflight[i].pc = "pipeline") =>
                    ENABLED ConcPipelineCompletes(i)
            /\ (inflight[i].gone /\ inflight[i].pc = "generate") =>
                    ENABLED ConcGenerateContentSettles(i, TRUE))
    /\ [][\A i \in SlotIds :
            (~inflight[i].gone /\ inflight'[i].gone) =>
                /\ inflight'[i].pc = inflight[i].pc
                /\ inflight'[i].tmp = inflight[i].tmp
                /\ disk' = disk]_vars

\* C21 witness: the caller went away, the analysis still completed (its
\* result was handed to ws.send) and the temp file is deleted
C21_Witness ==
    \E i \in SlotIds :
        /\ inflight[i].gone
        /\ inflight[i].pc = "done"
        /\ inflight[i].sent # <<>>
        /\ inflight[i].sent[1].result # None
        /\ inflight[i].sent[1].result[1].success
        /\ disk[inflight[i].tmp[1]] = Absent

\* C25: the process-wide configuration is never written after startup, and
\* the credential an analysis uses is the one in force when its request
\* started
C25_ConfigFixedAfterStartup ==
    /\ [][currentConfig' = currentConfig]_vars
    /\ [](\A i \in SlotIds :
            inflight[i].keyUsed # None =>
                inflight[i].keyUsed[1] = inflight[i].keyAtStart)

\* C26: requests in flight together have distinct temp paths, and a step of
\* one handler (its download, its cleanup) leaves the temp file of every
\* other handler in flight as it was
C26_DistinctTempPaths ==
    /\ [](\A i, j \in SlotIds :
            (i # j /\ inflight[i].tmp # None /\ inflight[j].tmp # None) =>
                inflight[i].tmp # inflight[j].tmp)
    /\ [][\A j \in SlotIds :
            (InFlight(j) /\ inflight'[j] = inflight[j]) =>
                disk'[inflight[j].tmp[1]] = disk[inflight[j].tmp[1]]]_vars

\* C26 witness: one handler has ended and deleted its temp file while
\* another one is at the provider with its own temp file still on disk
C26_Witness ==
    \E i, j \in SlotIds :
        /\ i # j
        /\ inflight[i].pc = "done"
        /\ inflight[i].sent[1].result # None
        /\ disk[inflight[i].tmp[1]] = Absent
        /\ inflight[j].pc = "generate"
        /\ disk[inflight[j].tmp[1]] = 10


(* ===================== properties: ownership of files ================== *)

\* C31: no step of any handler deletes or changes a file of the caller: the
\* path given to analyze_video_file (and every other local file) keeps its
\* size, whether the analysis succeeds, returns a failure or raises; what the
\* handlers delete lies in the scratch directory
C31_CallerFilesUntouched ==
    [][\A p \in LocalPaths : disk'[p] = disk[p]]_vars

\* C31 witness: analyze_video_file on an existing file has returned a failure
\* and the file is still there
C31_Witness ==
    /\ pc = "done"
    /\ req.transport # "upload"
    /\ req.tool = "analyze_video_file"
    /\ req.target # None
    /\ ret # None
    /\ ~ret[1].success
    /\ disk[req.target[1]] = 10


(* ====================== properties: missing arguments ================== *)

\* the request being served is an admitted call of an analysis tool without
\* its required argument (file_path, video_url) or without any arguments
MissingArgument ==
    /\ pc # "idle"
    /\ authed
    /\ req.type = "call_tool"
    /\ req.tool \in {"analyze_video_file", "analyze_video_url"}
    /\ ~req.hasArgs \/ req.target = None

\* C32: a tool call without its required argument is over at once and is
\* answered with the adapter's error (with the id of the request on the
\* WebSocket), never with a tool result; no temp path is allocated, nothing
\* is downloaded and the provider is not called
C32_MissingArgumentIsError ==
    MissingArgument =>
        /\ pc = "done"
        /\ tempFilePath = None
        /\ calls = <<>>
        /\ ret = None
        /\ Len(out) = 1
        /\ out[1].result = None
        /\ out[1].status \notin {"200", "tool_result", "result"}
        /\ req.transport = "ws" => out[1].id = req.id


(* ================= properties: client SDK, termination ================= *)

\* no tool_result or error can reach the client for call id any more: the
\* server holds no such call and none of its replies is on the way
Unanswerable(id) == id \notin received /\ \A m \in wire : m.id # id

\* C33: every callToolWS promise eventually settles, and a pending call for
\* which no reply can arrive any more (the connection closed while it was
\* pending) is rejected by the 30-second timeout.
C33_EveryCallSettles ==
    \A id \in CallIds :
        /\ (promise[id].state = "pending") ~> (promise[id].state \notin {"none", "pending"})
        /\ (promise[id].state = "pending" /\ Unanswerable(id)) ~>
               (promise[id].state = "rejected-timeout")

\* C33 witness: the connection closed while a call was pending, the server
\* never replied to it, and its timeout has rejected it
C33_Witness ==
    \E id \in CallIds :
        /\ promise[id] = [state |-> "rejected-timeout", settles |-> 1]
        /\ ~wsOpen
        /\ \A m \in Replies : m.id = id => m \notin replied
        /\ id \notin timers

(* ============ properties: calls in flight on one connection ============ *)

\* C34: every tool_result and error sent on a connection with several
\* call_tool requests in flight carries the id of the request whose handler
\* sent it and the result of that request's own tool and arguments, in
\* whatever order the calls finish.
C34_ReplyCarriesOwnId ==
    \A n \in 1..Len(wsSent) :
        LET m == wsSent[n]
        IN  /\ m.type \in {"tool_result", "error"}
            /\ m.id = wsCalls[m.by].id
            /\ m.content[1] = wsCalls[m.by].tool
            /\ m.content[2] = wsCalls[m.by].args
            /\ \A o \in 1..Len(wsSent) : wsSent[o].by = m.by => o = n

\* C34 witness: two calls with different ids and arguments were in flight
\* together and the one received later was answered first
C34_Witness ==
    /\ Len(wsSent) >= 2
    /\ wsSent[1].by = 2 /\ wsSent[2].by = 1
    /\ wsSent[1].type = "tool_result" /\ wsSent[2].type = "tool_result"
    /\ wsCalls[1].id # wsCalls[2].id
    /\ wsCalls[1].args # wsCalls[2].args

(* ====================== properties: stored uploads ===================== *)

\* the response to an upload that multer stored has been sent
UploadAnswered ==
    pc = "done" /\ req.transport = "upload" /\ tempFilePath # None /\ out # <<>>

\* C35: once the response to an accepted upload has been sent, the stored
\* upload is no longer in the scratch directory, whether analyzeVideo
\* succeeded, returned a failure result or raised.
C35_UploadRemoved ==
    UploadAnswered => disk[tempFilePath[1]] = Absent

\* C35 witness: an upload whose analysis returned a failure result has been
\* answered with that result
C35_Witness ==
    /\ UploadAnswered
    /\ ret # None /\ ~ret[1].success
    /\ out[1].status = "200"
    /\ release.unlinks = 1

(* ============ properties: URL operation without a credential =========== *)

\* the download of the URL operation being served completes
DownloadCompletes ==
    \E size \in DownloadSizes, readOk \in BOOLEAN : PipelineCompletes(size, readOk)

\* C36: a URL operation served with no provider credential configured still
\* downloads the asset: the missing-credential error is raised only when the
\* download has completed, and then the temp file is deleted and the call is
\* answered with that error, not with a success=false result.
C36_DownloadBeforeCredentialError ==
    /\ [][(UrlOperation /\ NoCredentialNext /\ DownloadCompletes) =>
            /\ disk[tempFilePath[1]] # Absent
            /\ pc' = "done"
            /\ disk'[tempFilePath[1]] = Absent
            /\ calls' = <<>>
            /\ ret' = None
            /\ Len(out') = 1
            /\ out'[1].error = MissingCredentialMessage
            /\ out'[1].result = None]_vars
    /\ [][(pc # "done" /\ pc' = "done" /\ tempFilePath' # None
              /\ req'.tool = "analyze_video_url"
              /\ out'[1].error = MissingCredentialMessage) => DownloadCompletes]_vars

\* C36 witness: a URL call on the stdio server with no credential has
\* ended with the missing-credential error after its download, the temp file
\* deleted by one unlinkSync
C36_Witness ==
    /\ pc = "done"
    /\ UrlOperation
    /\ Engine(req.transport) = "stdio"
    /\ ~currentConfig["stdio"]
    /\ out[1].error = MissingCredentialMessage
    /\ ret = None
    /\ release.unlinks = 1
    /\ disk[tempFilePath[1]] = Absent

(* ================== properties: name of the download =================== *)

\* C37: the asset of a URL operation is stored under a name ending in .mp4
\* whatever the extension of the URL, so no URL operation ends with the
\* unsupported-format error and every provider call of a URL operation sends
\* the asset as video/mp4.
C37_DownloadIsMp4 ==
    UrlOperation =>
        /\ extname(tempFilePath[1]) = ".mp4"
        /\ videoPart # None => videoPart[1].mimeType = "video/mp4"
        /\ \A n \in 1..Len(calls) : calls[n].mimeType = "video/mp4"
        /\ (ret # None /\ ~ret[1].success) => ret[1].error # "Unsupported file format"
        /\ \A n \in 1..Len(out) : out[n].error # "Unsupported file format"

\* C37 witness: the asset of a URL ending in .avi was downloaded, passed
\* validation on the remote server and was sent to the provider as video/mp4
C37_Witness ==
    /\ pc = "done"
    /\ UrlOperation
    /\ Engine(req.transport) = "remote"
    /\ req.target # None
    /\ extname(req.target[1]) = ".avi"
    /\ ret # None /\ ret[1].success
    /\ Len(calls) >= 1
    /\ calls[1].mimeType = "video/mp4"

(* =================== properties: discovery and dispatch ================ *)

\* C38: on each server a tool call is answered with the not-found error
\* exactly when the name it gives is not among the names the server's
\* discovery lists, so every listed name reaches a handler; on the mock
\* server the listed names are the cases of the dispatcher's switch.
C38_ListedIffDispatched ==
    /\ MockTools = ExecuteToolCases
    /\ (AdmittedToolCall /\ req.tool # "") =>
            (NotFoundAnswer <=> req.tool \notin ListedTools(req.transport))

\* C38 witness: on the mock server a listed tool was dispatched to its
\* handler, which answered with a result
C38_Witness ==
    /\ AdmittedToolCall
    /\ req.transport = "mock"
    /\ req.tool \in ListedTools("mock")
    /\ out[1].status = "result"

(* ============ properties: POST /mcp against POST /api/mcp/call ========= *)

McpPair == {"mcp", "mcpcall"}

\* the other of the two endpoints
Twin(t) == IF t = "mcp" THEN "mcpcall" ELSE "mcp"

\* the same tool call sent to the other endpoint
TwinReq(r) == [r EXCEPT !.transport = Twin(r.transport)]

\* what a caller and the scratch directory see of a handler, and where the
\* handler stands
Observable ==
    <<pc, out, ret, disk, tempFilePath, nextUuid, release, calls, results,
      videoPart, prompts, currentConfig, authed>>

\* the other endpoint, given the same request in the same state with the
\* same outcomes of authentication and file read, takes a step to the same
\* observable state
TwinArrives(r) ==
    /\ RequestRejected(r) =>
          \E o \in {Observable'} : ENABLED (RequestRejected(TwinReq(r)) /\ Observable' = o)
    /\ \A k \in BOOLEAN :
          RequestAnswered(r, k) =>
              \E o \in {Observable'} :
                  ENABLED (RequestAnswered(TwinReq(r), k) /\ Observable' = o)
    /\ \A k \in BOOLEAN, readOk \in BOOLEAN :
          RequestFile(r, k, readOk) =>
              \E o \in {Observable'} :
                  ENABLED (RequestFile(TwinReq(r), k, readOk) /\ Observable' = o)
    /\ \A k \in BOOLEAN :
          RequestUrl(r, k) =>
              \E o \in {Observable'} :
                  ENABLED (RequestUrl(TwinReq(r), k) /\ Observable' = o)

\* a handler resumed after an await ends as the other endpoint's handler
\* ends on the same outcome of the await
TwinResumes ==
    LET t == Twin(req.transport)
        tmp == tempFilePath[1]
    IN  /\ \A o \in {"error", "notok"} :
              FetchSettles(o) =>
                  LET c == UrlCatch(t, disk, tmp, downloadFileThrows(o))
                  IN  /\ out' = CallToolReply(TwinReq(req), c.sent)
                      /\ disk' = c.disk
                      /\ release' = c.release
        /\ PipelineFails =>
              LET c == UrlCatch(t, [disk EXCEPT ![tmp] = 1], tmp,
                                Threw("Premature close", ""))
              IN  /\ out' = CallToolReply(TwinReq(req), c.sent)
                  /\ disk' = c.disk
                  /\ release' = c.release
        /\ \A size \in DownloadSizes, readOk \in BOOLEAN :
              PipelineCompletes(size, readOk) =>
                  CallAnalyzeVideo(TwinReq(req), t, req.tool,
                                   [disk EXCEPT ![tmp] = size], tempFilePath,
                                   tempFilePath, req.prompt, currentConfig, readOk)
        /\ (pc = "generate" /\ pc' = "done") =>
              LET c == Conclude(t, req.tool, disk, tempFilePath, Returned(ret'[1]))
              IN  /\ out' = CallToolReply(TwinReq(req), c.sent)
                  /\ disk' = c.disk
                  /\ release' = c.release

C40_PendingOnlyWhileUnsettled ==
    \A id \in pendingRequests : promise[id].state = "pending"

====
